---- MODULE Spec2Model ----
(***************************************************************************)
(* Trigger state machine of push-to-talk: the global keyboard hook         *)
(* (hotkey.js), the recording flag and the start/stop commands (ui.js),    *)
(* and the configuration handlers of the main process (main.js); the       *)
(* capture chain of the renderer (audio.js), the silence gate of the       *)
(* transcribe-audio handler, the transcription flow (transcription.js) in  *)
(* the three main processes of the repository, the resampler and WAV       *)
(* encoder of audio.js, the overlay window and the recording file across   *)
(* overlapping sessions, the hotkey recorder of the settings window, and   *)
(* the model manager (models.js) with the set-model handler.               *)
(*                                                                         *)
(* JavaScript strings are modelled as sequences of one-character strings,  *)
(* so that split("+"), toUpperCase() and length are computed, not assumed. *)
(***************************************************************************)
EXTENDS Integers, Sequences, FiniteSets, TLC

VARIABLES
  hookStarted,         \* uiohook.on("input", ...) has been registered
  pressedKeys,         \* hotkey.js: let pressedKeys = new Set()
  recordingStartTime,  \* hotkey.js: let recordingStartTime = 0
  isLatched,           \* hotkey.js: let isLatched = false
  isPaused,            \* hotkey.js: let isPaused = false
  currentConfig,       \* hotkey.js: let currentConfig = null (aliases CONFIG of main.js)
  isRecording,         \* ui.js: let isRecording = false
  now,                 \* Date.now()
  physDown,            \* keys that are physically held down on the keyboard
  emitted              \* commands sent to the renderer by the last handler run

VARIABLES
  channel,             \* webContents.send messages not yet handled by the renderer
  audioContext,        \* audio.js: let audioContext = null ("null" or "running")
  liveGraphs,          \* audio graphs whose onaudioprocess callback still fires
  audioBuffers,        \* audio.js: let audioBuffers = []
  audioIsRecording,    \* audio.js: let isRecording = false
  pendingWarmups,      \* startAudioRecording calls awaiting warmUpMicrophone()
  cooling,             \* stopAudioRecording awaiting stopMicrophone(), with its WAV
  nextBlock,           \* number of the next block the audio device delivers
  lastPayload,         \* last argument of sendAudioForTranscription
  shipped,             \* samples of every payload sent so far
  mainBlocks,          \* blocks delivered while the main-process session was open
  activeBlocks         \* blocks whose callback ran since the capture flag was set

VARIABLES
  stopResult,          \* renderer: what stopAudioRecording resolved to
  ipcAudio,            \* transcribe-audio invocations not yet handled
  rmsCalls,            \* number of calls of calculateRMS
  audioFile,           \* content of CONFIG.audioFile (empty: not written)
  engineRuns,          \* number of calls of handleRecordingComplete
  typed,               \* texts handed to typeText
  overlayHidden,       \* hideOverlay() has been called
  gateReturn           \* what the transcribe-audio handler returned

hookVars == <<hookStarted, pressedKeys, recordingStartTime, isLatched, isPaused,
              currentConfig, isRecording, now, physDown, emitted>>

rendererVars == <<channel, audioContext, liveGraphs, audioBuffers,
                  audioIsRecording, pendingWarmups, cooling, nextBlock,
                  lastPayload, shipped, mainBlocks, activeBlocks>>

gateVars == <<stopResult, ipcAudio, rmsCalls, audioFile, engineRuns, typed,
              overlayHidden, gateReturn>>

VARIABLES
  variant,             \* which main.js is running
  sessionId,           \* number of recording sessions started so far
  stopInbox,           \* stop-recording messages the renderer has not handled
  ipcSession,          \* for each entry of ipcAudio, the session it belongs to
  engineLog,           \* for each spawn of the whisper binary, its session
  injectLog            \* for each text handed to the active window, its session

flowVars == <<variant, sessionId, stopInbox, ipcSession, engineLog, injectLog>>

VARIABLES
  host,                \* the machine: binary, audio file, what the engine does
  proc,                \* the child process: none, unspawned, running, errored, closed
  stdout,              \* transcribe: let stdout = ""
  resolveCalls,        \* arguments of the calls of resolve, in order
  resumed,             \* handleRecordingComplete went on after the await
  clipboardWrites,     \* arguments of clipboard.writeText, in order
  flowReport           \* what handleRecordingComplete reported

engineVars == <<host, proc, stdout, resolveCalls, resumed, clipboardWrites,
                flowReport>>

VARIABLES
  pcmInput,            \* stopAudioRecording: resultBuffer, the flattened samples
  nativeRate,          \* audioContext.sampleRate
  targetRate,          \* targetSampleRate
  downsampled,         \* stopAudioRecording: downsampledBuffer
  wavBytes,            \* stopAudioRecording: wavBuffer, byte by byte
  codecStep            \* how far stopAudioRecording got: input, downsampled, encoded

codecVars == <<pcmInput, nativeRate, targetRate, downsampled, wavBytes,
               codecStep>>

VARIABLES
  overlayWindow,       \* ui.js: let overlayWindow; 0 is null, else the window
  windows,             \* the overlay windows that exist
  closing,             \* windows closed whose "closed" event is still to come
  requests,            \* transcribe-audio requests on their way: session, capture
  fileSession,         \* the session whose audio CONFIG.audioFile holds
  engines              \* sessions whose engine process is running

sessionVars == <<overlayWindow, windows, closing, requests, fileSession,
                 engines>>

VARIABLES
  isRecordingHotkey,   \* settings window: the hotkey recorder is open
  heldModifiers,       \* hotkey.js of the renderer: const heldModifiers = new Set()
  pendingHotkey,       \* the accelerator recorded so far, or null
  domDown              \* keys physically down, as the DOM reports them

recorderVars == <<isRecordingHotkey, heldModifiers, pendingHotkey, domDown>>

VARIABLES
  files,               \* models directory: for each model absent, partial, complete
  downloading,         \* ModelManager: this.downloading, the keys of the Map
  transfers,           \* for each model, its https request: none, requested, receiving
  waiting,             \* models whose set-model handler awaits downloadModel
  configModel          \* CONFIG.model

modelVars == <<files, downloading, transfers, waiting, configModel>>

restVars == <<sessionVars, recorderVars, modelVars>>

tailVars == <<flowVars, engineVars, codecVars, restVars>>

vars == <<hookVars, rendererVars, gateVars, tailVars>>

----------------------------------------------------------------------------
(* Bounds of the model *)

\* number of clock advances in one behaviour
MaxTicks == 1

\* number of start/stop messages in flight to the renderer
MaxQueue == 2

\* number of blocks the audio device delivers in one behaviour
MaxBlocks == 2

\* number of audio graphs alive at once
MaxGraphs == 2

----------------------------------------------------------------------------
(* JavaScript values: undefined, a number, or an array of numbers *)

Undefined == [kind |-> "undefined", codes |-> <<>>]

Num(n) == [kind |-> "number", codes |-> <<n>>]

Arr(s) == [kind |-> "array", codes |-> s]

\* truthiness as used by `a || b` and `if (mapped)`
Truthy(v) == \/ v.kind = "array"
             \/ v.kind = "number" /\ v.codes[1] # 0

\* a || b
Or(a, b) == IF Truthy(a) THEN a ELSE b

\* obj[key] of a plain object: undefined when the key is absent
Get(obj, key) == IF key \in DOMAIN obj THEN obj[key] ELSE Undefined

----------------------------------------------------------------------------
(* Strings *)

LowerAlphabet == <<"a","b","c","d","e","f","g","h","i","j","k","l","m",
                   "n","o","p","q","r","s","t","u","v","w","x","y","z">>

UpperAlphabet == <<"A","B","C","D","E","F","G","H","I","J","K","L","M",
                   "N","O","P","Q","R","S","T","U","V","W","X","Y","Z">>

UpperChar(c) ==
  IF \E i \in 1..Len(LowerAlphabet) : LowerAlphabet[i] = c
  THEN UpperAlphabet[CHOOSE i \in 1..Len(LowerAlphabet) : LowerAlphabet[i] = c]
  ELSE c

\* String.prototype.toUpperCase
toUpperCase(s) == [i \in 1..Len(s) |-> UpperChar(s[i])]

\* String.prototype.split(sep) for a one-character separator: "" splits to [""]
RECURSIVE SplitFrom(_, _, _)
SplitFrom(s, sep, cur) ==
  IF s = <<>> THEN <<cur>>
  ELSE IF Head(s) = sep THEN <<cur>> \o SplitFrom(Tail(s), sep, <<>>)
  ELSE SplitFrom(Tail(s), sep, Append(cur, Head(s)))

split(s, sep) == SplitFrom(s, sep, <<>>)

----------------------------------------------------------------------------
(* Key codes of uiohook-napi and the accelerator-name table *)

UiohookKey ==
     (<<"B", "a", "c", "k", "s", "p", "a", "c", "e">> :> 14)
  @@ (<<"T", "a", "b">> :> 15)
  @@ (<<"E", "n", "t", "e", "r">> :> 28)
  @@ (<<"C", "a", "p", "s", "L", "o", "c", "k">> :> 58)
  @@ (<<"E", "s", "c", "a", "p", "e">> :> 1)
  @@ (<<"S", "p", "a", "c", "e">> :> 57)
  @@ (<<"P", "a", "g", "e", "U", "p">> :> 3657)
  @@ (<<"P", "a", "g", "e", "D", "o", "w", "n">> :> 3665)
  @@ (<<"E", "n", "d">> :> 3663)
  @@ (<<"H", "o", "m", "e">> :> 3655)
  @@ (<<"A", "r", "r", "o", "w", "L", "e", "f", "t">> :> 57419)
  @@ (<<"A", "r", "r", "o", "w", "U", "p">> :> 57416)
  @@ (<<"A", "r", "r", "o", "w", "R", "i", "g", "h", "t">> :> 57421)
  @@ (<<"A", "r", "r", "o", "w", "D", "o", "w", "n">> :> 57424)
  @@ (<<"I", "n", "s", "e", "r", "t">> :> 3666)
  @@ (<<"D", "e", "l", "e", "t", "e">> :> 3667)
  @@ (<<"0">> :> 11)
  @@ (<<"1">> :> 2)
  @@ (<<"2">> :> 3)
  @@ (<<"3">> :> 4)
  @@ (<<"4">> :> 5)
  @@ (<<"5">> :> 6)
  @@ (<<"6">> :> 7)
  @@ (<<"7">> :> 8)
  @@ (<<"8">> :> 9)
  @@ (<<"9">> :> 10)
  @@ (<<"A">> :> 30)
  @@ (<<"B">> :> 48)
  @@ (<<"C">> :> 46)
  @@ (<<"D">> :> 32)
  @@ (<<"E">> :> 18)
  @@ (<<"F">> :> 33)
  @@ (<<"G">> :> 34)
  @@ (<<"H">> :> 35)
  @@ (<<"I">> :> 23)
  @@ (<<"J">> :> 36)
  @@ (<<"K">> :> 37)
  @@ (<<"L">> :> 38)
  @@ (<<"M">> :> 50)
  @@ (<<"N">> :> 49)
  @@ (<<"O">> :> 24)
  @@ (<<"P">> :> 25)
  @@ (<<"Q">> :> 16)
  @@ (<<"R">> :> 19)
  @@ (<<"S">> :> 31)
  @@ (<<"T">> :> 20)
  @@ (<<"U">> :> 22)
  @@ (<<"V">> :> 47)
  @@ (<<"W">> :> 17)
  @@ (<<"X">> :> 45)
  @@ (<<"Y">> :> 21)
  @@ (<<"Z">> :> 44)
  @@ (<<"F", "1">> :> 59)
  @@ (<<"F", "2">> :> 60)
  @@ (<<"F", "3">> :> 61)
  @@ (<<"F", "4">> :> 62)
  @@ (<<"F", "5">> :> 63)
  @@ (<<"F", "6">> :> 64)
  @@ (<<"F", "7">> :> 65)
  @@ (<<"F", "8">> :> 66)
  @@ (<<"F", "9">> :> 67)
  @@ (<<"F", "1", "0">> :> 68)
  @@ (<<"F", "1", "1">> :> 87)
  @@ (<<"F", "1", "2">> :> 88)
  @@ (<<"C", "t", "r", "l">> :> 29)
  @@ (<<"C", "t", "r", "l", "R", "i", "g", "h", "t">> :> 3613)
  @@ (<<"A", "l", "t">> :> 56)
  @@ (<<"A", "l", "t", "R", "i", "g", "h", "t">> :> 3640)
  @@ (<<"S", "h", "i", "f", "t">> :> 42)
  @@ (<<"S", "h", "i", "f", "t", "R", "i", "g", "h", "t">> :> 54)
  @@ (<<"M", "e", "t", "a">> :> 3675)
  @@ (<<"M", "e", "t", "a", "R", "i", "g", "h", "t">> :> 3676)

KEY_MAP ==
     (<<"S", "p", "a", "c", "e">> :> Num(UiohookKey[<<"S", "p", "a", "c", "e">>]))
  @@ (<<"E", "n", "t", "e", "r">> :> Num(UiohookKey[<<"E", "n", "t", "e", "r">>]))
  @@ (<<"E", "s", "c", "a", "p", "e">> :> Num(UiohookKey[<<"E", "s", "c", "a", "p", "e">>]))
  @@ (<<"T", "a", "b">> :> Num(UiohookKey[<<"T", "a", "b">>]))
  @@ (<<"B", "a", "c", "k", "s", "p", "a", "c", "e">> :> Num(UiohookKey[<<"B", "a", "c", "k", "s", "p", "a", "c", "e">>]))
  @@ (<<"H", "o", "m", "e">> :> Num(UiohookKey[<<"H", "o", "m", "e">>]))
  @@ (<<"E", "n", "d">> :> Num(UiohookKey[<<"E", "n", "d">>]))
  @@ (<<"P", "a", "g", "e", "U", "p">> :> Num(UiohookKey[<<"P", "a", "g", "e", "U", "p">>]))
  @@ (<<"P", "a", "g", "e", "D", "o", "w", "n">> :> Num(UiohookKey[<<"P", "a", "g", "e", "D", "o", "w", "n">>]))
  @@ (<<"D", "e", "l", "e", "t", "e">> :> Num(UiohookKey[<<"D", "e", "l", "e", "t", "e">>]))
  @@ (<<"I", "n", "s", "e", "r", "t">> :> Num(UiohookKey[<<"I", "n", "s", "e", "r", "t">>]))
  @@ (<<"A", "r", "r", "o", "w", "U", "p">> :> Num(UiohookKey[<<"A", "r", "r", "o", "w", "U", "p">>]))
  @@ (<<"A", "r", "r", "o", "w", "D", "o", "w", "n">> :> Num(UiohookKey[<<"A", "r", "r", "o", "w", "D", "o", "w", "n">>]))
  @@ (<<"A", "r", "r", "o", "w", "L", "e", "f", "t">> :> Num(UiohookKey[<<"A", "r", "r", "o", "w", "L", "e", "f", "t">>]))
  @@ (<<"A", "r", "r", "o", "w", "R", "i", "g", "h", "t">> :> Num(UiohookKey[<<"A", "r", "r", "o", "w", "R", "i", "g", "h", "t">>]))
  @@ (<<"F", "1">> :> Num(UiohookKey[<<"F", "1">>]))
  @@ (<<"F", "2">> :> Num(UiohookKey[<<"F", "2">>]))
  @@ (<<"F", "3">> :> Num(UiohookKey[<<"F", "3">>]))
  @@ (<<"F", "4">> :> Num(UiohookKey[<<"F", "4">>]))
  @@ (<<"F", "5">> :> Num(UiohookKey[<<"F", "5">>]))
  @@ (<<"F", "6">> :> Num(UiohookKey[<<"F", "6">>]))
  @@ (<<"F", "7">> :> Num(UiohookKey[<<"F", "7">>]))
  @@ (<<"F", "8">> :> Num(UiohookKey[<<"F", "8">>]))
  @@ (<<"F", "9">> :> Num(UiohookKey[<<"F", "9">>]))
  @@ (<<"F", "1", "0">> :> Num(UiohookKey[<<"F", "1", "0">>]))
  @@ (<<"F", "1", "1">> :> Num(UiohookKey[<<"F", "1", "1">>]))
  @@ (<<"F", "1", "2">> :> Num(UiohookKey[<<"F", "1", "2">>]))
  @@ (<<"C", "o", "m", "m", "a", "n", "d", "O", "r", "C", "o", "n", "t", "r", "o", "l">> :> Arr(<<UiohookKey[<<"M", "e", "t", "a">>], UiohookKey[<<"M", "e", "t", "a", "R", "i", "g", "h", "t">>], UiohookKey[<<"C", "t", "r", "l">>], UiohookKey[<<"C", "t", "r", "l", "R", "i", "g", "h", "t">>]>>))
  @@ (<<"C", "o", "m", "m", "a", "n", "d">> :> Arr(<<UiohookKey[<<"M", "e", "t", "a">>], UiohookKey[<<"M", "e", "t", "a", "R", "i", "g", "h", "t">>]>>))
  @@ (<<"C", "o", "n", "t", "r", "o", "l">> :> Arr(<<UiohookKey[<<"C", "t", "r", "l">>], UiohookKey[<<"C", "t", "r", "l", "R", "i", "g", "h", "t">>]>>))
  @@ (<<"S", "h", "i", "f", "t">> :> Arr(<<UiohookKey[<<"S", "h", "i", "f", "t">>], UiohookKey[<<"S", "h", "i", "f", "t", "R", "i", "g", "h", "t">>]>>))
  @@ (<<"A", "l", "t">> :> Arr(<<UiohookKey[<<"A", "l", "t">>], UiohookKey[<<"A", "l", "t", "R", "i", "g", "h", "t">>]>>))
  @@ (<<"O", "p", "t", "i", "o", "n">> :> Arr(<<UiohookKey[<<"A", "l", "t">>], UiohookKey[<<"A", "l", "t", "R", "i", "g", "h", "t">>]>>))
  @@ (<<"R", "i", "g", "h", "t", "C", "o", "m", "m", "a", "n", "d">> :> Num(UiohookKey[<<"M", "e", "t", "a", "R", "i", "g", "h", "t">>]))
  @@ (<<"R", "i", "g", "h", "t", "C", "o", "n", "t", "r", "o", "l">> :> Num(UiohookKey[<<"C", "t", "r", "l", "R", "i", "g", "h", "t">>]))
  @@ (<<"R", "i", "g", "h", "t", "S", "h", "i", "f", "t">> :> Num(UiohookKey[<<"S", "h", "i", "f", "t", "R", "i", "g", "h", "t">>]))
  @@ (<<"R", "i", "g", "h", "t", "O", "p", "t", "i", "o", "n">> :> Num(UiohookKey[<<"A", "l", "t", "R", "i", "g", "h", "t">>]))
  @@ (<<"R", "i", "g", "h", "t", "A", "l", "t">> :> Num(UiohookKey[<<"A", "l", "t", "R", "i", "g", "h", "t">>]))
  @@ (<<"L", "e", "f", "t", "C", "o", "m", "m", "a", "n", "d">> :> Num(UiohookKey[<<"M", "e", "t", "a">>]))
  @@ (<<"L", "e", "f", "t", "C", "o", "n", "t", "r", "o", "l">> :> Num(UiohookKey[<<"C", "t", "r", "l">>]))
  @@ (<<"L", "e", "f", "t", "S", "h", "i", "f", "t">> :> Num(UiohookKey[<<"S", "h", "i", "f", "t">>]))
  @@ (<<"L", "e", "f", "t", "O", "p", "t", "i", "o", "n">> :> Num(UiohookKey[<<"A", "l", "t">>]))
  @@ (<<"L", "e", "f", "t", "A", "l", "t">> :> Num(UiohookKey[<<"A", "l", "t">>]))

\* UiohookKey[name]: undefined for a name the library does not define
UiohookKeyGet(name) ==
  IF name \in DOMAIN UiohookKey THEN Num(UiohookKey[name]) ELSE Undefined

----------------------------------------------------------------------------
(* Configuration *)

\* currentConfig = null before startUiohook
NoConfig == [isNull |-> TRUE, hotkey |-> <<>>, triggerMode |-> "null"]

Config(h, m) == [isNull |-> FALSE, hotkey |-> h, triggerMode |-> m]

HotkeyShiftSpace == <<"S","h","i","f","t","+","S","p","a","c","e">>

HotkeyF8 == <<"F","8">>

\* the hotkey stored by the clear button of the settings window
HotkeyCleared == <<>>

HotkeyChoices == {HotkeyShiftSpace, HotkeyF8, HotkeyCleared}

TriggerModes == {"hold", "toggle", "hybrid"}

\* key codes the keyboard delivers in this model: Shift, ShiftRight, Space, F8
Keys == {42, 54, 57, 66}

\* the latch window of hybrid mode, in milliseconds
LatchWindowMs == 500

\* clock advances between two events, in milliseconds: around the latch window
TickSteps == {LatchWindowMs - 1, LatchWindowMs, LatchWindowMs + 1}

\* number of clock advances that led to time t
TicksUsed(t) == t \div (LatchWindowMs - 1)

----------------------------------------------------------------------------
(* hotkey.js: isHotkeyPressed *)

\* KEY_MAP[k] || KEY_MAP[k.toUpperCase()] || UiohookKey[k.length === 1 ? k.toUpperCase() : k]
Resolve(k) ==
  Or(Or(Get(KEY_MAP, k), Get(KEY_MAP, toUpperCase(k))),
     UiohookKeyGet(IF Len(k) = 1 THEN toUpperCase(k) ELSE k))

\* variant: every code of a modifier must be down (every instead of some)
EveryPressed(codes, pressed) ==
  \A i \in 1..Len(codes) : codes[i] \in pressed

\* mapped.some((code) => pressedKeys.has(code))
SomePressed(codes, pressed) ==
  \E i \in 1..Len(codes) : codes[i] \in pressed

\* one iteration of the loop body: FALSE when the iteration returns false
TokenHeld(k, pressed) ==
  LET mapped == Resolve(k)
  IN IF mapped.kind = "array"
     THEN SomePressed(mapped.codes, pressed)
     ELSE IF Truthy(mapped)
     THEN mapped.codes[1] \in pressed
     ELSE IF Len(k) = 1
     THEN LET charCode == UiohookKeyGet(toUpperCase(k))
          IN ~(Truthy(charCode) /\ charCode.codes[1] \notin pressed)
     ELSE TRUE

RECURSIVE AllTokensHeld(_, _)
AllTokensHeld(keys, pressed) ==
  IF keys = <<>> THEN TRUE
  ELSE IF ~TokenHeld(Head(keys), pressed) THEN FALSE
  ELSE AllTokensHeld(Tail(keys), pressed)

isHotkeyPressed(config, pressed) ==
  IF config.isNull THEN FALSE
  ELSE AllTokensHeld(split(config.hotkey, "+"), pressed)

----------------------------------------------------------------------------
(* ui.js: startRecording / stopRecording, as the new flag and the message sent *)

startRecording(rec) ==
  IF rec THEN [isRecording |-> rec, sent |-> <<>>]
  ELSE [isRecording |-> TRUE, sent |-> <<"start-recording">>]

\* variant: the stop command is sent but the flag is left set
stopRecordingKeepsFlag(rec) ==
  IF ~rec THEN [isRecording |-> rec, sent |-> <<>>]
  ELSE [isRecording |-> rec, sent |-> <<"stop-recording">>]

stopRecording(rec) ==
  IF ~rec THEN [isRecording |-> rec, sent |-> <<>>]
  ELSE [isRecording |-> FALSE, sent |-> <<"stop-recording">>]

----------------------------------------------------------------------------
(* hotkey.js: the uiohook "input" callback *)

\* variant: the latched stop forgets hybrid mode
LatchedStopToggleOnly(latched, mode) ==
  latched /\ mode = "toggle"

\* isLatched && (triggerMode === "hybrid" || triggerMode === "toggle")
LatchedStop(latched, mode) ==
  latched /\ (mode = "hybrid" \/ mode = "toggle")

\* variant: a press during a session stops it in every mode
PressOutcomeAnyMode(rec, latched, mode) ==
  IF ~rec THEN "start"
  ELSE IF latched /\ (mode = "hybrid" \/ mode = "toggle") THEN "stop-unlatch"
  ELSE "stop"

\* the branch a key-down takes once isHotkeyPressed() is true
PressOutcome(rec, latched, mode) ==
  IF ~rec THEN "start"
  ELSE IF LatchedStop(latched, mode) THEN "stop-unlatch"
  ELSE IF mode = "toggle" THEN "stop"
  ELSE "none"

\* variant: duration <= 500
ShortPressInclusive(duration) == duration <= LatchWindowMs

\* duration < 500
ShortPress(duration) == duration < LatchWindowMs

\* variant: hold mode is not distinguished from hybrid mode
ReleaseOutcomeNoHold(mode, latched, duration) ==
  IF mode = "toggle" THEN "latch"
  ELSE IF ~latched
  THEN IF duration < LatchWindowMs THEN "latch" ELSE "stop"
  ELSE "none"

\* variant: toggle mode is not distinguished from hybrid mode
ReleaseOutcomeNoToggle(mode, latched, duration) ==
  IF mode = "hold" THEN "stop"
  ELSE IF ~latched
  THEN IF duration < LatchWindowMs THEN "latch" ELSE "stop"
  ELSE "none"

\* the branch a key-up takes once wasPressed && !isPressedNow && isRecording
ReleaseOutcome(mode, latched, duration) ==
  IF mode = "toggle" THEN "latch"
  ELSE IF mode = "hold" THEN "stop"
  ELSE IF ~latched
  THEN IF ShortPress(duration) THEN "latch" ELSE "stop"
  ELSE "none"

\* e.type === 4
OnKeyDown(keycode) ==
  LET pressed == pressedKeys \cup {keycode}
      outcome == IF isHotkeyPressed(currentConfig, pressed)
                 THEN PressOutcome(isRecording, isLatched, currentConfig.triggerMode)
                 ELSE "none"
      started == startRecording(isRecording)
      stopped == stopRecording(isRecording)
  IN /\ pressedKeys' = pressed
     /\ CASE outcome = "start" ->
               /\ isRecording' = started.isRecording
               /\ emitted' = started.sent
               /\ recordingStartTime' = now
               /\ isLatched' = FALSE
          [] outcome = "stop-unlatch" ->
               /\ isRecording' = stopped.isRecording
               /\ emitted' = stopped.sent
               /\ isLatched' = FALSE
               /\ UNCHANGED recordingStartTime
          [] outcome = "stop" ->
               /\ isRecording' = stopped.isRecording
               /\ emitted' = stopped.sent
               /\ UNCHANGED <<isLatched, recordingStartTime>>
          [] OTHER ->
               /\ emitted' = <<>>
               /\ UNCHANGED <<isRecording, isLatched, recordingStartTime>>

\* e.type === 5
OnKeyUp(keycode) ==
  LET wasPressed == isHotkeyPressed(currentConfig, pressedKeys)
      pressed == pressedKeys \ {keycode}
      isPressedNow == isHotkeyPressed(currentConfig, pressed)
      duration == now - recordingStartTime
      outcome == IF wasPressed /\ ~isPressedNow /\ isRecording
                 THEN ReleaseOutcome(currentConfig.triggerMode, isLatched, duration)
                 ELSE "none"
      stopped == stopRecording(isRecording)
  IN /\ pressedKeys' = pressed
     /\ CASE outcome = "latch" ->
               /\ isLatched' = TRUE
               /\ emitted' = <<>>
               /\ UNCHANGED isRecording
          [] outcome = "stop" ->
               /\ isRecording' = stopped.isRecording
               /\ emitted' = stopped.sent
               /\ UNCHANGED isLatched
          [] OTHER ->
               /\ emitted' = <<>>
               /\ UNCHANGED <<isRecording, isLatched>>
     /\ UNCHANGED recordingStartTime

\* variant: the callback does not look at isPaused
OnInputIgnoresPause(type, keycode) ==
  /\ IF type = 4 THEN OnKeyDown(keycode)
     ELSE IF type = 5 THEN OnKeyUp(keycode)
     ELSE /\ emitted' = <<>>
          /\ UNCHANGED <<pressedKeys, recordingStartTime, isLatched, isRecording>>
  /\ UNCHANGED <<hookStarted, isPaused, currentConfig, now>>

\* uiohook.on("input", (e) => ...) for an event of type 4 (key down) or 5 (key up)
OnInput(type, keycode) ==
  /\ IF isPaused
     THEN /\ emitted' = <<>>
          /\ UNCHANGED <<pressedKeys, recordingStartTime, isLatched, isRecording>>
     ELSE IF type = 4 THEN OnKeyDown(keycode)
     ELSE IF type = 5 THEN OnKeyUp(keycode)
     ELSE /\ emitted' = <<>>
          /\ UNCHANGED <<pressedKeys, recordingStartTime, isLatched, isRecording>>
  /\ UNCHANGED <<hookStarted, isPaused, currentConfig, now>>

----------------------------------------------------------------------------
(* audio.js and the IPC triggers of the renderer: the audio capture chain *)

\* samples in one block of the script processor (4096 in the code)
bufferSize == 2

\* the argument of sendAudioForTranscription: nothing sent yet,
\* new ArrayBuffer(0), or the WAV of a sequence of samples
NoPayload == [kind |-> "none", samples |-> <<>>]

EmptyPayload == [kind |-> "empty", samples |-> <<>>]

Wav(samples) == [kind |-> "wav", samples |-> samples]

NotCooling == [active |-> FALSE, samples |-> <<>>]

\* event.inputBuffer.getChannelData(0) of the n-th block of the device:
\* the samples are numbered in the order the device produces them
Block(n) == [i \in 1..bufferSize |-> (n - 1) * bufferSize + i]

\* variant: the callback appends whatever the flag says
onaudioprocessAlways(rec, buffers, inputData) ==
  Append(buffers, inputData)

\* scriptProcessor.onaudioprocess: the accumulator after the callback
onaudioprocess(rec, buffers, inputData) ==
  IF ~rec THEN buffers ELSE Append(buffers, inputData)

\* stopAudioRecording, "Flatten buffers"
RECURSIVE Flatten(_)
Flatten(buffers) ==
  IF buffers = <<>> THEN <<>>
  ELSE Head(buffers) \o Flatten(Tail(buffers))

\* Float samples are rationals in lowest terms; the rounding of floating
\* point arithmetic is left out
RECURSIVE GCD(_, _)
GCD(a, b) == IF b = 0 THEN a ELSE GCD(b, a % b)

Abs(x) == IF x < 0 THEN 0 - x ELSE x

Frac(n, d) ==
  LET g == GCD(Abs(n), d)
  IN  [num |-> n \div g, den |-> d \div g]

\* a + b
Plus(a, b) == Frac(a.num * b.den + b.num * a.den, a.den * b.den)

\* Math.round(n / d) for n >= 0 and d > 0: halves go up
Round(n, d) == (2 * n + d) \div (2 * d)

\* accum and count of the inner loop of downsampleBuffer, for the indices
\* lo .. hi - 1 of the buffer (from 0)
RECURSIVE Accum(_, _, _)
Accum(buffer, lo, hi) ==
  IF hi <= lo THEN Frac(0, 1)
  ELSE Plus(Accum(buffer, lo, hi - 1), buffer[hi])

\* the while loop of downsampleBuffer: result[i] is the mean of the buffer
\* from Math.round(i * ratio) up to Math.round((i + 1) * ratio) and the end
\* of the buffer, or 0 when there is nothing in between
Resample(buffer, sampleRate, outSampleRate, newLength) ==
  [r \in 1..newLength |->
     LET offsetBuffer == Round((r - 1) * sampleRate, outSampleRate)
         nextOffsetBuffer == Round(r * sampleRate, outSampleRate)
         end == IF nextOffsetBuffer < Len(buffer) THEN nextOffsetBuffer
                ELSE Len(buffer)
         count == IF end > offsetBuffer THEN end - offsetBuffer ELSE 0
         accum == Accum(buffer, offsetBuffer, end)
     IN  IF count = 0 THEN Frac(0, 1)
         ELSE Frac(accum.num, accum.den * count)]

\* variant: the length of the result is rounded up
downsampleBufferCeil(buffer, sampleRate, outSampleRate) ==
  IF outSampleRate = sampleRate THEN buffer
  ELSE IF outSampleRate > sampleRate THEN buffer
  ELSE Resample(buffer, sampleRate, outSampleRate,
                (Len(buffer) * outSampleRate + sampleRate - 1) \div sampleRate)

\* variant: a lower native rate is not passed through
downsampleBufferUpsamples(buffer, sampleRate, outSampleRate) ==
  IF outSampleRate = sampleRate THEN buffer
  ELSE Resample(buffer, sampleRate, outSampleRate,
                Round(Len(buffer) * outSampleRate, sampleRate))

\* downsampleBuffer; the renderer creates its context at 16000 Hz, the
\* target rate
downsampleBuffer(buffer, sampleRate, outSampleRate) ==
  IF outSampleRate = sampleRate THEN buffer
  ELSE IF outSampleRate > sampleRate THEN buffer
  ELSE Resample(buffer, sampleRate, outSampleRate,
                Round(Len(buffer) * outSampleRate, sampleRate))

\* startAudioRecording after its awaits: audioBuffers = []; isRecording = true
BeginCapture(rec, buffers) ==
  [audioBuffers |-> <<>>, isRecording |-> TRUE]

\* variant: the accumulator is not emptied after encoding
stopAudioRecordingKeepsBuffers(buffers, ctx, shouldCoolDown) ==
  IF Len(buffers) = 0
    THEN [isRecording |-> FALSE, result |-> "null", samples |-> <<>>,
          audioBuffers |-> buffers, cools |-> FALSE]
  ELSE IF ctx = "null"
    THEN [isRecording |-> FALSE, result |-> "throws", samples |-> <<>>,
          audioBuffers |-> buffers, cools |-> FALSE]
  ELSE [isRecording |-> FALSE, result |-> "wav",
        samples |-> downsampleBuffer(Flatten(buffers), 16000, 16000),
        audioBuffers |-> buffers, cools |-> shouldCoolDown]

\* stopAudioRecording up to its await: the flag, what the promise will
\* resolve to, the accumulator, and whether stopMicrophone() is awaited.
\* With no context left, reading audioContext.sampleRate throws inside the
\* executor and the promise never resolves.
stopAudioRecording(buffers, ctx, shouldCoolDown) ==
  IF Len(buffers) = 0
    THEN [isRecording |-> FALSE, result |-> "null", samples |-> <<>>,
          audioBuffers |-> buffers, cools |-> FALSE]
  ELSE IF ctx = "null"
    THEN [isRecording |-> FALSE, result |-> "throws", samples |-> <<>>,
          audioBuffers |-> buffers, cools |-> FALSE]
  ELSE [isRecording |-> FALSE, result |-> "wav",
        samples |-> downsampleBuffer(Flatten(buffers), 16000, 16000),
        audioBuffers |-> <<>>, cools |-> shouldCoolDown]

Range(s) == {s[i] : i \in 1..Len(s)}

\* window.api.sendAudioForTranscription(payload)
Send(payload) ==
  /\ lastPayload' = payload
  /\ shipped' = shipped \cup Range(payload.samples)

hookRest == <<hookStarted, pressedKeys, recordingStartTime, isLatched,
              isPaused, currentConfig, isRecording, now, physDown>>

\* a renderer step runs no handler of the main process
MainIdle ==
  /\ emitted' = <<>>
  /\ UNCHANGED hookRest

\* renderer: window.api.onStartRecording -> startAudioRecording()
OnStartRecording ==
  /\ channel # <<>>
  /\ Head(channel) = "start-recording"
  /\ channel' = Tail(channel)
  /\ IF audioContext = "null"
       THEN /\ pendingWarmups < MaxGraphs
            /\ pendingWarmups' = pendingWarmups + 1
            /\ UNCHANGED <<audioBuffers, audioIsRecording, activeBlocks>>
       ELSE /\ audioBuffers' = BeginCapture(audioIsRecording, audioBuffers).audioBuffers
            /\ audioIsRecording' = BeginCapture(audioIsRecording, audioBuffers).isRecording
            /\ activeBlocks' = <<>>
            /\ UNCHANGED pendingWarmups
  /\ UNCHANGED <<audioContext, liveGraphs, cooling, nextBlock, lastPayload,
                 shipped, mainBlocks>>
  /\ MainIdle

\* warmUpMicrophone() settles, with true (a new graph is built and connected)
\* or with false (getUserMedia rejected), and startAudioRecording goes on
WarmUpDone(ok) ==
  /\ pendingWarmups > 0
  /\ pendingWarmups' = pendingWarmups - 1
  /\ IF ok
       THEN /\ liveGraphs < MaxGraphs
            /\ audioContext' = "running"
            /\ liveGraphs' = liveGraphs + 1
       ELSE UNCHANGED <<audioContext, liveGraphs>>
  /\ audioBuffers' = BeginCapture(audioIsRecording, audioBuffers).audioBuffers
  /\ audioIsRecording' = BeginCapture(audioIsRecording, audioBuffers).isRecording
  /\ activeBlocks' = <<>>
  /\ UNCHANGED <<channel, cooling, nextBlock, lastPayload, shipped, mainBlocks>>
  /\ MainIdle

\* the audio device delivers its next block to a live graph
DeliverBlock ==
  /\ liveGraphs > 0
  /\ nextBlock <= MaxBlocks
  /\ nextBlock' = nextBlock + 1
  /\ audioBuffers' = onaudioprocess(audioIsRecording, audioBuffers, Block(nextBlock))
  /\ mainBlocks' = IF isRecording THEN Append(mainBlocks, Block(nextBlock))
                   ELSE mainBlocks
  /\ activeBlocks' = IF audioIsRecording THEN Append(activeBlocks, Block(nextBlock))
                     ELSE activeBlocks
  /\ UNCHANGED <<channel, audioContext, liveGraphs, audioIsRecording,
                 pendingWarmups, cooling, lastPayload, shipped>>
  /\ MainIdle

\* renderer: window.api.onStopRecording -> stopAudioRecording(shouldCoolDown);
\* shouldCoolDown is the state of the pre-heat toggle
OnStopRecording(shouldCoolDown) ==
  /\ channel # <<>>
  /\ Head(channel) = "stop-recording"
  /\ channel' = Tail(channel)
  /\ LET r == stopAudioRecording(audioBuffers, audioContext, shouldCoolDown)
     IN  /\ ~(r.cools /\ cooling.active)
         /\ audioIsRecording' = r.isRecording
         /\ audioBuffers' = r.audioBuffers
         /\ CASE r.result = "null" ->
                   /\ Send(EmptyPayload)
                   /\ UNCHANGED cooling
              [] r.result = "throws" ->
                   UNCHANGED <<lastPayload, shipped, cooling>>
              [] r.result = "wav" /\ r.cools ->
                   /\ cooling' = [active |-> TRUE, samples |-> r.samples]
                   /\ UNCHANGED <<lastPayload, shipped>>
              [] OTHER ->
                   /\ Send(Wav(r.samples))
                   /\ UNCHANGED cooling
  /\ UNCHANGED <<audioContext, liveGraphs, pendingWarmups, nextBlock,
                 mainBlocks, activeBlocks>>
  /\ MainIdle

\* stopMicrophone() settles: the context is closed and forgotten, and the
\* promise of stopAudioRecording resolves with the WAV
CoolDownDone ==
  /\ cooling.active
  /\ cooling' = NotCooling
  /\ audioContext' = "null"
  /\ liveGraphs' = IF liveGraphs > 0 THEN liveGraphs - 1 ELSE 0
  /\ Send(Wav(cooling.samples))
  /\ UNCHANGED <<channel, audioBuffers, audioIsRecording, pendingWarmups,
                 nextBlock, mainBlocks, activeBlocks>>
  /\ MainIdle

\* a key event whose commands travel to the renderer
Travel ==
  /\ Len(channel) + Len(emitted') <= MaxQueue
  /\ channel' = channel \o emitted'
  /\ mainBlocks' = IF emitted' = <<"start-recording">> THEN <<>> ELSE mainBlocks
  /\ UNCHANGED <<audioContext, liveGraphs, audioBuffers, audioIsRecording,
                 pendingWarmups, cooling, nextBlock, lastPayload, shipped,
                 activeBlocks>>

RendererInit(ctx) ==
  /\ channel = <<>>
  /\ audioContext = ctx
  /\ liveGraphs = IF ctx = "running" THEN 1 ELSE 0
  /\ audioBuffers = <<>>
  /\ audioIsRecording = FALSE
  /\ pendingWarmups = 0
  /\ cooling = NotCooling
  /\ nextBlock = 1
  /\ lastPayload = NoPayload
  /\ shipped = {}
  /\ mainBlocks = <<>>
  /\ activeBlocks = <<>>


----------------------------------------------------------------------------
(* main.js: the transcribe-audio handler, and calculateRMS of transcription.js *)

\* calculateRMS: const WAV_HEADER_SIZE = 44
WAV_HEADER_SIZE == 44

\* transcribe-audio: if (audioDataArray.length < 1000)
MinAudioBytes == 1000

\* transcribe-audio: const SILENCE_THRESHOLD = 1500
SILENCE_THRESHOLD == 1500

\* view.setUint16(offset, x, true) and view.setUint32(offset, x, true)
U16LE(x) == <<x % 256, (x \div 256) % 256>>

U32LE(x) ==
  <<x % 256, (x \div 256) % 256, (x \div 65536) % 256, (x \div 16777216) % 256>>

\* view.setInt16(offset, s, true): two's complement, low byte first
Int16LE(s) == U16LE(IF s < 0 THEN s + 65536 ELSE s)

\* setInt16 on a number: ToInt16 of the integer part
ToInt16(v) == ((v + 32768) % 65536) - 32768

\* n / d without its fractional part
Truncate(n, d) == IF n < 0 THEN 0 - ((0 - n) \div d) ELSE n \div d

\* variant: the sample is scaled without being clamped
sampleTo16Unclamped(x) ==
  ToInt16(IF x.num < 0 THEN Truncate(x.num * 32768, x.den)
          ELSE Truncate(x.num * 32767, x.den))

\* floatTo16BitPCM, the value written for one sample:
\* s = Math.max(-1, Math.min(1, x)); s < 0 ? s * 0x8000 : s * 0x7fff
sampleTo16(x) ==
  LET s == IF x.num > x.den THEN Frac(1, 1)
           ELSE IF x.num < 0 - x.den THEN Frac(0 - 1, 1)
           ELSE x
  IN  ToInt16(IF s.num < 0 THEN Truncate(s.num * 32768, s.den)
              ELSE Truncate(s.num * 32767, s.den))

\* floatTo16BitPCM, the values written for the samples
toInt16Samples(input) == [i \in 1..Len(input) |-> sampleTo16(input[i])]

\* floatTo16BitPCM: sample i goes to bytes 2i and 2i + 1 after the offset
PCM16(samples) ==
  [k \in 1..(2 * Len(samples)) |-> Int16LE(samples[(k + 1) \div 2])[2 - (k % 2)]]

\* variant: the data size is the number of samples
encodeWAVSampleCount(samples, sampleRate) ==
  <<82, 73, 70, 70>> \o U32LE(36 + Len(samples) * 2)
    \o <<87, 65, 86, 69>> \o <<102, 109, 116, 32>>
    \o U32LE(16) \o U16LE(1) \o U16LE(1)
    \o U32LE(sampleRate) \o U32LE(sampleRate * 2)
    \o U16LE(2) \o U16LE(16)
    \o <<100, 97, 116, 97>> \o U32LE(Len(samples))
    \o PCM16(samples)

\* encodeWAV, on samples that are already 16-bit integers: the 44-byte
\* header ("RIFF", size, "WAVE", "fmt ", 16, PCM, mono, rate, byte rate,
\* block align, bits, "data", size) and the samples
encodeWAV(samples, sampleRate) ==
  <<82, 73, 70, 70>> \o U32LE(36 + Len(samples) * 2)
    \o <<87, 65, 86, 69>> \o <<102, 109, 116, 32>>
    \o U32LE(16) \o U16LE(1) \o U16LE(1)
    \o U32LE(sampleRate) \o U32LE(sampleRate * 2)
    \o U16LE(2) \o U16LE(16)
    \o <<100, 97, 116, 97>> \o U32LE(Len(samples) * 2)
    \o PCM16(samples)

\* the capture as stopAudioRecording found it: no blocks (it resolves to
\* null), or the samples that it encodes
Null == [isNull |-> TRUE, samples |-> <<>>]

Captured(samples) == [isNull |-> FALSE, samples |-> samples]

\* samples[i] = val >= 0x8000 ? val - 0x10000 : val, val = byte1 | (byte2 << 8)
Int16Of(byte1, byte2) ==
  LET val == byte1 + byte2 * 256
  IN  IF val >= 32768 THEN val - 65536 ELSE val

\* the sample at index i: samples[i] of calculateRMS
SampleAt(buffer, i) ==
  LET byteIndex == WAV_HEADER_SIZE + i * 2
  IN  Int16Of(buffer[byteIndex + 1], buffer[byteIndex + 2])

\* sumSquares over the samples lo .. hi - 1, added up by halves
RECURSIVE SumSquares(_, _, _)
SumSquares(buffer, lo, hi) ==
  IF hi <= lo THEN 0
  ELSE IF hi = lo + 1 THEN SampleAt(buffer, lo) * SampleAt(buffer, lo)
  ELSE LET mid == (lo + hi) \div 2
       IN  SumSquares(buffer, lo, mid) + SumSquares(buffer, mid, hi)

\* Math.floor(Math.sqrt(x)) for 0 <= x <= 32768 * 32768
FloorSqrt(x) == CHOOSE r \in 0..32768 : r * r <= x /\ x < (r + 1) * (r + 1)

NaN == [isNaN |-> TRUE, floor |-> 0]

Real(floor) == [isNaN |-> FALSE, floor |-> floor]

\* variant: the mean is taken over the bytes, not over the samples
calculateRMSPerByte(buffer) ==
  LET audioDataLength == Len(buffer) - WAV_HEADER_SIZE
      numSamples == audioDataLength \div 2
  IN  IF audioDataLength <= 0 THEN Real(0)
      ELSE IF numSamples = 0 THEN NaN
      ELSE Real(FloorSqrt(SumSquares(buffer, 0, numSamples) \div audioDataLength))

\* calculateRMS: the root mean square of the 16-bit samples after the
\* header, kept as its integer part (the gate compares it with an integer);
\* 0 / 0 is NaN
calculateRMS(buffer) ==
  LET audioDataLength == Len(buffer) - WAV_HEADER_SIZE
      numSamples == audioDataLength \div 2
  IN  IF audioDataLength <= 0 THEN Real(0)
      ELSE IF numSamples = 0 THEN NaN
      ELSE Real(FloorSqrt(SumSquares(buffer, 0, numSamples) \div numSamples))

\* rms < threshold in JavaScript: false for NaN
Less(rms, threshold) == ~rms.isNaN /\ rms.floor < threshold

\* variant: no length floor
SilenceGateNoFloor(audioDataArray) ==
  IF Less(calculateRMS(audioDataArray), SILENCE_THRESHOLD)
    THEN [verdict |-> "silent", rmsCalls |-> 1]
    ELSE [verdict |-> "pass", rmsCalls |-> 1]

\* variant: the RMS is computed before the length is looked at
SilenceGateRmsFirst(audioDataArray) ==
  IF Less(calculateRMS(audioDataArray), SILENCE_THRESHOLD)
    THEN [verdict |-> "silent", rmsCalls |-> 1]
  ELSE IF Len(audioDataArray) < MinAudioBytes
    THEN [verdict |-> "short", rmsCalls |-> 1]
    ELSE [verdict |-> "pass", rmsCalls |-> 1]

\* transcribe-audio, the two checks before the try block: the verdict and how
\* often calculateRMS was called
SilenceGate(audioDataArray) ==
  IF Len(audioDataArray) < MinAudioBytes
    THEN [verdict |-> "short", rmsCalls |-> 0]
  ELSE IF Less(calculateRMS(audioDataArray), SILENCE_THRESHOLD)
    THEN [verdict |-> "silent", rmsCalls |-> 1]
    ELSE [verdict |-> "pass", rmsCalls |-> 1]

GateInit ==
  /\ stopResult = Null
  /\ ipcAudio = <<>>
  /\ rmsCalls = 0
  /\ audioFile = <<>>
  /\ engineRuns = 0
  /\ typed = <<>>
  /\ overlayHidden = FALSE
  /\ gateReturn = "none"

\* the modular main process, before any recording session
FlowInit ==
  /\ variant = "modular"
  /\ sessionId = 0
  /\ stopInbox = <<>>
  /\ ipcSession = <<>>
  /\ engineLog = <<>>
  /\ injectLog = <<>>

\* no transcription has been asked for
EngineInit ==
  /\ host = [binExists |-> FALSE, fileExists |-> FALSE, startFails |-> FALSE,
             output |-> <<>>, code |-> 0]
  /\ proc = "none"
  /\ stdout = <<>>
  /\ resolveCalls = <<>>
  /\ resumed = FALSE
  /\ clipboardWrites = <<>>
  /\ flowReport = "none"

\* nothing has been recorded
CodecInit ==
  /\ pcmInput = <<>>
  /\ nativeRate = 16000
  /\ targetRate = 16000
  /\ downsampled = <<>>
  /\ wavBytes = <<>>
  /\ codecStep = "input"

\* no overlay window yet, nothing recorded, no engine running
SessionInit ==
  /\ overlayWindow = 0
  /\ windows = {}
  /\ closing = {}
  /\ requests = <<>>
  /\ fileSession = 0
  /\ engines = {}

\* the settings window with the recorder closed and no key down
RecorderInit ==
  /\ isRecordingHotkey = FALSE
  /\ heldModifiers = {}
  /\ pendingHotkey = [isNull |-> TRUE, text |-> <<>>]
  /\ domDown = {}

\* const AVAILABLE_MODELS
Models == {"tiny", "base", "small", "medium", "large-v3-turbo"}

\* the base model is installed and configured, nothing is being downloaded
ModelInit ==
  /\ files = [m \in Models |-> IF m = "base" THEN "complete" ELSE "absent"]
  /\ downloading = {}
  /\ transfers = [m \in Models |-> "none"]
  /\ waiting = {}
  /\ configModel = "base"

RestInit == SessionInit /\ RecorderInit /\ ModelInit

TailInit == FlowInit /\ EngineInit /\ CodecInit /\ RestInit

----------------------------------------------------------------------------
(* Operations *)

Init ==
  /\ hookStarted = FALSE
  /\ pressedKeys = {}
  /\ recordingStartTime = 0
  /\ isLatched = FALSE
  /\ isPaused = FALSE
  /\ currentConfig = NoConfig
  /\ isRecording = FALSE
  /\ now = 0
  /\ physDown = {}
  /\ emitted = <<>>
  /\ RendererInit("null")
  /\ GateInit
  /\ TailInit

\* main.js: CONFIG = loadConfig(); ...; startUiohook(CONFIG)
startUiohook(config) ==
  /\ ~hookStarted
  /\ hookStarted' = TRUE
  /\ currentConfig' = config
  /\ emitted' = <<>>
  /\ UNCHANGED <<pressedKeys, recordingStartTime, isLatched, isPaused,
                 isRecording, now, physDown>>

\* the user presses key k, or the keyboard auto-repeats it while it is held
KeyDown(k) ==
  /\ hookStarted
  /\ physDown' = physDown \cup {k}
  /\ OnInput(4, k)

\* the user releases key k
KeyUp(k) ==
  /\ hookStarted
  /\ k \in physDown
  /\ physDown' = physDown \ {k}
  /\ OnInput(5, k)

\* time passes
Tick(d) ==
  /\ hookStarted
  /\ TicksUsed(now) < MaxTicks
  /\ now' = now + d
  /\ emitted' = <<>>
  /\ UNCHANGED <<hookStarted, pressedKeys, recordingStartTime, isLatched,
                 isPaused, currentConfig, isRecording, physDown>>

\* hotkey.js: setPaused, called by the set-recording-hotkey handler of main.js
setPaused(paused) ==
  /\ hookStarted
  /\ isPaused' = paused
  /\ emitted' = <<>>
  /\ UNCHANGED <<hookStarted, pressedKeys, recordingStartTime, isLatched,
                 currentConfig, isRecording, now, physDown>>

\* main.js: the set-hotkey handler (CONFIG.hotkey = newHotkey; setConfig(CONFIG))
SetHotkey(newHotkey) ==
  /\ hookStarted
  /\ currentConfig' = [currentConfig EXCEPT !.hotkey = newHotkey]
  /\ emitted' = <<>>
  /\ UNCHANGED <<hookStarted, pressedKeys, recordingStartTime, isLatched,
                 isPaused, isRecording, now, physDown>>

\* main.js: the set-trigger-mode handler (CONFIG.triggerMode = mode; setConfig(CONFIG))
SetTriggerMode(mode) ==
  /\ hookStarted
  /\ currentConfig' = [currentConfig EXCEPT !.triggerMode = mode]
  /\ emitted' = <<>>
  /\ UNCHANGED <<hookStarted, pressedKeys, recordingStartTime, isLatched,
                 isPaused, isRecording, now, physDown>>

\* the hook on its own: the renderer stays as it is
Next ==
  \/ \E h \in HotkeyChoices, m \in TriggerModes :
        startUiohook(Config(h, m)) /\ UNCHANGED <<rendererVars, gateVars, tailVars>>
  \/ \E k \in Keys : KeyDown(k) /\ UNCHANGED <<rendererVars, gateVars, tailVars>>
  \/ \E k \in Keys : KeyUp(k) /\ UNCHANGED <<rendererVars, gateVars, tailVars>>
  \/ \E d \in TickSteps : Tick(d) /\ UNCHANGED <<rendererVars, gateVars, tailVars>>
  \/ \E p \in BOOLEAN : setPaused(p) /\ UNCHANGED <<rendererVars, gateVars, tailVars>>
  \/ \E h \in HotkeyChoices : SetHotkey(h) /\ UNCHANGED <<rendererVars, gateVars, tailVars>>
  \/ \E m \in TriggerModes : SetTriggerMode(m) /\ UNCHANGED <<rendererVars, gateVars, tailVars>>

Spec == Init /\ [][Next]_vars

----------------------------------------------------------------------------
(* The hook, the IPC channel and the audio capture chain together *)

PipelineKeys == {42, 57}

\* the app is running in hybrid mode with the Shift+Space chord; the
\* microphone was pre-heated or not
InitPipeline ==
  /\ hookStarted = TRUE
  /\ pressedKeys = {}
  /\ recordingStartTime = 0
  /\ isLatched = FALSE
  /\ isPaused = FALSE
  /\ currentConfig = Config(HotkeyShiftSpace, "hybrid")
  /\ isRecording = FALSE
  /\ now = 0
  /\ physDown = {}
  /\ emitted = <<>>
  /\ \E ctx \in {"null", "running"} : RendererInit(ctx)
  /\ GateInit
  /\ TailInit

NextPipeline ==
  \/ \E k \in PipelineKeys : KeyDown(k) /\ Travel /\ UNCHANGED <<gateVars, tailVars>>
  \/ \E k \in PipelineKeys : KeyUp(k) /\ Travel /\ UNCHANGED <<gateVars, tailVars>>
  \/ OnStartRecording /\ UNCHANGED <<gateVars, tailVars>>
  \/ \E ok \in BOOLEAN : WarmUpDone(ok) /\ UNCHANGED <<gateVars, tailVars>>
  \/ DeliverBlock /\ UNCHANGED <<gateVars, tailVars>>
  \/ \E c \in BOOLEAN : OnStopRecording(c) /\ UNCHANGED <<gateVars, tailVars>>
  \/ CoolDownDone /\ UNCHANGED <<gateVars, tailVars>>

SpecPipeline == InitPipeline /\ [][NextPipeline]_vars

----------------------------------------------------------------------------
(* The end of a capture: the renderer sends the audio, the main process gates it *)

\* renderer, the end of onStopRecording: the WAV that stopAudioRecording
\* encoded, or new ArrayBuffer(0) for null, goes to the main process as an
\* array of bytes
SendAudioForTranscription ==
  /\ ipcAudio = <<>>
  /\ gateReturn = "none"
  /\ ipcAudio' = <<IF stopResult.isNull THEN <<>>
                   ELSE encodeWAV(stopResult.samples, 16000)>>
  /\ UNCHANGED <<stopResult, rmsCalls, audioFile, engineRuns, typed,
                 overlayHidden, gateReturn>>

\* what transcribe() gives handleRecordingComplete
EngineOutcomes == {"speech", "noise", "empty", "throws"}

\* main.js: ipcMain.handle("transcribe-audio", ...), with
\* handleRecordingComplete of transcription.js
TranscribeAudio(outcome) ==
  /\ ipcAudio # <<>>
  /\ ipcAudio' = Tail(ipcAudio)
  /\ LET audioDataArray == Head(ipcAudio)
         gate == SilenceGate(audioDataArray)
     IN  /\ rmsCalls' = rmsCalls + gate.rmsCalls
         /\ IF gate.verdict # "pass"
              THEN /\ overlayHidden' = TRUE
                   /\ gateReturn' = "false"
                   /\ UNCHANGED <<audioFile, engineRuns, typed>>
              ELSE /\ audioFile' = audioDataArray
                   /\ engineRuns' = engineRuns + 1
                   /\ typed' = IF outcome = "speech" THEN Append(typed, "text")
                               ELSE typed
                   /\ overlayHidden' = (outcome # "throws")
                   /\ gateReturn' = IF outcome = "throws" THEN "false" ELSE "true"
  /\ UNCHANGED stopResult

\* payloads: n samples that alternate between two values
Alternating(n, a, b) == [i \in 1..n |-> IF i % 2 = 1 THEN a ELSE b]

GateSampleCounts == {0, 1, 477, 478, 479}

GateSamplePairs ==
  {<<0, 0>>, <<1, 1>>, <<1499, 1499>>, <<1500, 1500>>, <<1501, 1501>>,
   <<-1499, -1499>>, <<-1500, -1500>>, <<-1501, 1501>>, <<2000, 2000>>,
   <<0, 2000>>, <<0, 2121>>, <<0, 2122>>, <<1536, 1536>>, <<6, 6>>}

GatePayloads ==
  {Null} \cup {Captured(Alternating(n, p[1], p[2])) :
                 n \in GateSampleCounts, p \in GateSamplePairs}

\* a capture has just ended in the renderer, with one of the payloads
InitGate ==
  /\ hookStarted = TRUE
  /\ pressedKeys = {}
  /\ recordingStartTime = 0
  /\ isLatched = FALSE
  /\ isPaused = FALSE
  /\ currentConfig = Config(HotkeyShiftSpace, "hybrid")
  /\ isRecording = FALSE
  /\ now = 0
  /\ physDown = {}
  /\ emitted = <<>>
  /\ RendererInit("running")
  /\ stopResult \in GatePayloads
  /\ ipcAudio = <<>>
  /\ rmsCalls = 0
  /\ audioFile = <<>>
  /\ engineRuns = 0
  /\ typed = <<>>
  /\ overlayHidden = FALSE
  /\ gateReturn = "none"
  /\ TailInit

NextGate ==
  \/ SendAudioForTranscription /\ UNCHANGED <<hookVars, rendererVars, tailVars>>
  \/ \E o \in EngineOutcomes :
       TranscribeAudio(o) /\ UNCHANGED <<hookVars, rendererVars, tailVars>>

SpecGate == InitGate /\ [][NextGate]_vars

----------------------------------------------------------------------------
(* The chord matcher on its own: a larger key set and more hotkeys, a fixed *)
(* configuration, and only key events                                       *)

HotkeyCmdShiftSpace ==
  <<"C","o","m","m","a","n","d","O","r","C","o","n","t","r","o","l","+",
    "S","h","i","f","t","+","S","p","a","c","e">>

HotkeyRightShiftA == <<"R","i","g","h","t","S","h","i","f","t","+","a">>

HotkeyOptionF8 == <<"O","p","t","i","o","n","+","F","8">>

\* the recorder upper-cases the names of keys such as Enter
HotkeyShiftEnter == <<"S","h","i","f","t","+","E","N","T","E","R">>

MatcherHotkeys == {HotkeyCmdShiftSpace, HotkeyRightShiftA, HotkeyOptionF8,
                   HotkeyShiftEnter, HotkeyCleared}

\* Meta, CtrlRight, Shift, ShiftRight, Space, A, AltRight, F8
MatcherKeys == {3675, 3613, 42, 54, 57, 30, 3640, 66}

InitMatcher ==
  /\ hookStarted = TRUE
  /\ pressedKeys = {}
  /\ recordingStartTime = 0
  /\ isLatched = FALSE
  /\ isPaused = FALSE
  /\ currentConfig \in {Config(h, m) : h \in MatcherHotkeys, m \in TriggerModes}
  /\ isRecording = FALSE
  /\ now = 0
  /\ physDown = {}
  /\ emitted = <<>>
  /\ RendererInit("null")
  /\ GateInit
  /\ TailInit

NextMatcher ==
  \/ \E k \in MatcherKeys : KeyDown(k) /\ UNCHANGED <<rendererVars, gateVars, tailVars>>
  \/ \E k \in MatcherKeys : KeyUp(k) /\ UNCHANGED <<rendererVars, gateVars, tailVars>>

SpecMatcher == InitMatcher /\ [][NextMatcher]_vars

----------------------------------------------------------------------------
(* Vocabulary of the properties *)

Start == <<"start-recording">>

Stop == <<"stop-recording">>

Mode == currentConfig.triggerMode

\* the chord as the tracker sees it
ChordHeld == isHotkeyPressed(currentConfig, pressedKeys)

Tokens(config) == split(config.hotkey, "+")

\* every token of the hotkey maps to a key code or to an array of key codes
AllResolve(config) ==
  /\ ~config.isNull
  /\ \A i \in DOMAIN Tokens(config) : Truthy(Resolve(Tokens(config)[i]))

CodesOf(k) == {Resolve(k).codes[i] : i \in DOMAIN Resolve(k).codes}

\* a key-up of k, handled by the callback, that takes the chord from held to not held
Releases(k) ==
  /\ KeyUp(k)
  /\ ~isPaused
  /\ ChordHeld
  /\ ~isHotkeyPressed(currentConfig, pressedKeys \ {k})

\* a key-down of k, handled by the callback, after which the chord is held
Presses(k) ==
  /\ KeyDown(k)
  /\ ~isPaused
  /\ isHotkeyPressed(currentConfig, pressedKeys \cup {k})

----------------------------------------------------------------------------
(* The transcription flow in the three main processes: the modular one      *)
(* (main.js with hotkey.js, ui.js and transcription.js), the one of         *)
(* application/src/main.js and the one of src/main.js.  The renderer is     *)
(* reduced to its stop handler.                                             *)

FlowVariants == {"modular", "application", "monolithic"}

MaxSessions == 2

\* what stopAudioRecording resolves to: null, or a long and loud capture
FlowCaptures == {Null, Captured(Alternating(479, 2000, 2000))}

\* handleRecordingComplete: transcribe() spawns the engine when the audio
\* file exists; the text goes to the active window when there is one, and,
\* where the noise filter exists, when it is not noise
RecordingComplete(v, file, outcome) ==
  [spawns  |-> file # <<>>,
   injects |-> /\ file # <<>>
               /\ \/ outcome = "speech"
                  \/ outcome = "noise" /\ v = "monolithic"]

\* the rest of a run of the hook callback: a start opens a session, a stop
\* sends stop-recording to the renderer and, in src/main.js, goes on with
\* handleRecordingComplete()
HookFlow(outcome) ==
  /\ sessionId' = IF emitted' = Start THEN sessionId + 1 ELSE sessionId
  /\ sessionId' <= MaxSessions
  /\ stopInbox' = IF emitted' = Stop THEN Append(stopInbox, sessionId)
                  ELSE stopInbox
  /\ IF emitted' = Stop /\ variant = "monolithic"
       THEN LET r == RecordingComplete(variant, audioFile, outcome)
            IN  /\ engineRuns' = engineRuns + 1
                /\ engineLog' = IF r.spawns THEN Append(engineLog, sessionId)
                                ELSE engineLog
                /\ injectLog' = IF r.injects THEN Append(injectLog, sessionId)
                                ELSE injectLog
                /\ typed' = IF r.injects THEN Append(typed, "text") ELSE typed
       ELSE UNCHANGED <<engineRuns, engineLog, injectLog, typed>>
  /\ UNCHANGED <<variant, ipcSession, stopResult, ipcAudio, rmsCalls,
                 audioFile, overlayHidden, gateReturn>>

\* renderer: onStopRecording.  The modular renderer always calls
\* sendAudioForTranscription, with an empty buffer for null; the other two
\* call it only when there is audio
RendererStop(capture) ==
  /\ stopInbox # <<>>
  /\ stopInbox' = Tail(stopInbox)
  /\ stopResult' = capture
  /\ IF variant = "modular" \/ ~capture.isNull
       THEN /\ ipcAudio' = Append(ipcAudio,
                                  IF capture.isNull THEN <<>>
                                  ELSE encodeWAV(capture.samples, 16000))
            /\ ipcSession' = Append(ipcSession, Head(stopInbox))
       ELSE UNCHANGED <<ipcAudio, ipcSession>>
  /\ UNCHANGED <<variant, sessionId, engineLog, injectLog, rmsCalls,
                 audioFile, engineRuns, typed, overlayHidden, gateReturn>>

\* ipcMain.handle("transcribe-audio", ...) of application/src/main.js and of
\* src/main.js: the file is written and handleRecordingComplete awaited
TranscribeAudioUngated(v, outcome) ==
  /\ ipcAudio # <<>>
  /\ ipcAudio' = Tail(ipcAudio)
  /\ audioFile' = Head(ipcAudio)
  /\ engineRuns' = engineRuns + 1
  /\ typed' = IF RecordingComplete(v, Head(ipcAudio), outcome).injects
                THEN Append(typed, "text") ELSE typed
  /\ gateReturn' = IF outcome = "throws" THEN "false" ELSE "true"
  /\ UNCHANGED <<stopResult, rmsCalls, overlayHidden>>

\* the transcribe-audio handler of the running main process
FlowTranscribeAudio(outcome) ==
  /\ IF variant = "modular" THEN TranscribeAudio(outcome)
     ELSE TranscribeAudioUngated(variant, outcome)
  /\ ipcSession' = Tail(ipcSession)
  /\ engineLog' = IF engineRuns' > engineRuns
                    THEN Append(engineLog, Head(ipcSession)) ELSE engineLog
  /\ injectLog' = IF Len(typed') > Len(typed)
                    THEN Append(injectLog, Head(ipcSession)) ELSE injectLog
  /\ UNCHANGED <<variant, sessionId, stopInbox>>

\* one of the three applications is running, in one of the trigger modes
InitFlow ==
  /\ hookStarted = TRUE
  /\ pressedKeys = {}
  /\ recordingStartTime = 0
  /\ isLatched = FALSE
  /\ isPaused = FALSE
  /\ currentConfig \in {Config(HotkeyShiftSpace, m) : m \in TriggerModes}
  /\ isRecording = FALSE
  /\ now = 0
  /\ physDown = {}
  /\ emitted = <<>>
  /\ RendererInit("running")
  /\ GateInit
  /\ variant \in FlowVariants
  /\ sessionId = 0
  /\ stopInbox = <<>>
  /\ ipcSession = <<>>
  /\ engineLog = <<>>
  /\ injectLog = <<>>
  /\ EngineInit
  /\ CodecInit
  /\ RestInit

NextFlow ==
  \/ \E k \in PipelineKeys, o \in EngineOutcomes :
       KeyDown(k) /\ HookFlow(o) /\ UNCHANGED <<rendererVars, engineVars, codecVars, restVars>>
  \/ \E k \in PipelineKeys, o \in EngineOutcomes :
       KeyUp(k) /\ HookFlow(o) /\ UNCHANGED <<rendererVars, engineVars, codecVars, restVars>>
  \/ \E c \in FlowCaptures :
       RendererStop(c) /\ UNCHANGED <<hookVars, rendererVars, engineVars, codecVars, restVars>>
  \/ \E o \in EngineOutcomes :
       FlowTranscribeAudio(o)
         /\ UNCHANGED <<hookVars, rendererVars, engineVars, codecVars, restVars>>

SpecFlow == InitFlow /\ [][NextFlow]_vars

\* how many entries of a log belong to session s
Count(log, s) == Cardinality({i \in DOMAIN log : log[i] = s})

----------------------------------------------------------------------------
(* transcription.js: transcribe, typeText and handleRecordingComplete *)

MaxStdout == 4

\* String.prototype.toLowerCase, on the letters that occur in the model
LowerChar(c) ==
  IF \E i \in 1..Len(UpperAlphabet) : UpperAlphabet[i] = c
  THEN LowerAlphabet[CHOOSE i \in 1..Len(UpperAlphabet) : UpperAlphabet[i] = c]
  ELSE IF c = "Ú" THEN "ú"
  ELSE IF c = "Ê" THEN "ê"
  ELSE c

toLowerCase(s) == [i \in 1..Len(s) |-> LowerChar(s[i])]

\* String.prototype.includes
includes(s, p) ==
  \E i \in 0..(Len(s) - Len(p)) : SubSeq(s, i + 1, i + Len(p)) = p

WhiteSpace == {" ", "\t", "\n", "\r"}

RECURSIVE trimStart(_)
trimStart(s) ==
  IF s # <<>> /\ Head(s) \in WhiteSpace THEN trimStart(Tail(s)) ELSE s

RECURSIVE trimEnd(_)
trimEnd(s) ==
  IF s # <<>> /\ s[Len(s)] \in WhiteSpace
  THEN trimEnd(SubSeq(s, 1, Len(s) - 1)) ELSE s

\* String.prototype.trim
trim(s) == trimEnd(trimStart(s))

\* Array.prototype.join
RECURSIVE join(_, _)
join(a, sep) ==
  IF a = <<>> THEN <<>>
  ELSE IF Len(a) = 1 THEN a[1]
  ELSE a[1] \o sep \o join(Tail(a), sep)

NonEmptyLine(line) == Len(line) > 0

\* stdout.split("\n").map(trim).filter(length > 0).join(" ").trim()
parseStdoutKeepsBlank(out) ==
  LET lines == split(out, "\n")
  IN  trim(join([i \in DOMAIN lines |-> trim(lines[i])], <<" ">>))

parseStdout(out) ==
  LET lines == split(out, "\n")
      trimmed == [i \in DOMAIN lines |-> trim(lines[i])]
  IN  trim(join(SelectSeq(trimmed, NonEmptyLine), <<" ">>))

\* what transcribe resolves to: a text, or null
NoText == [isNull |-> TRUE, text |-> <<>>]

Text(t) == [isNull |-> FALSE, text |-> t]

\* text || null
OrNull(t) == IF t = <<>> THEN NoText ELSE Text(t)

\* proc.on("close", (code) => ...)
onCloseAnyCode(code, out) == OrNull(parseStdout(out))

onClose(code, out) ==
  IF code # 0 THEN NoText ELSE OrNull(parseStdout(out))

\* transcription.js: const noisePatterns = [...]
noisePatterns ==
  << <<"[", "m", "ú", "s", "i", "c", "a", " ", "d", "e", " ", "f", "u", "n", "d", "o", "]">>,
     <<"[", "f", "u", "n", "d", "o", "]">>,
     <<"[", "m", "u", "s", "i", "c", "]">>,
     <<"(", "m", "u", "s", "i", "c", ")">>,
     <<"[", "s", "i", "l", "e", "n", "c", "e", "]">>,
     <<"[", "s", "i", "l", "ê", "n", "c", "i", "o", "]">>,
     <<"m", "ú", "s", "i", "c", "a">>,
     <<"m", "u", "s", "i", "c">>,
     <<"s", "o", "u", "s", "-", "t", "i", "t", "r", "e", "s">>,
     <<"s", "u", "b", "t", "i", "t", "l", "e">>,
     <<".", ".", ".">> >>

\* noisePatterns.some((pattern) => lowerText.includes(pattern))
isNoiseCaseSensitive(text) ==
  \E i \in DOMAIN noisePatterns : includes(text, noisePatterns[i])

isNoise(text) ==
  \E i \in DOMAIN noisePatterns :
    includes(toLowerCase(text), noisePatterns[i])

\* handleRecordingComplete reaches `await typeText(text)`
ForwardsAnyText(text) == ~text.isNull

Forwards(text) == ~text.isNull /\ ~isNoise(text.text)

Platforms == {"darwin", "win32", "linux"}

\* the clipboard before typeText runs: empty, or something the user copied
PriorClipboards == {<<>>, <<"p">>}

\* typeText: the clipboard writes it makes.  On macOS the text is pasted
\* through the clipboard and a non-empty previous content restored; elsewhere
\* the text is typed, and pasted through the clipboard when typing fails
typeText(text, platform, prior, error) ==
  IF platform = "darwin"
    THEN IF prior # <<>> THEN <<text, prior>> ELSE <<text>>
    ELSE IF error THEN <<text>> ELSE <<>>

Host(bin, file, fails, out, code) ==
  [binExists |-> bin, fileExists |-> file, startFails |-> fails,
   output |-> out, code |-> code]

NoHost == Host(FALSE, FALSE, FALSE, <<>>, 0)

StdoutAlphabet == {"a", " ", "\n", "\r"}

Strings(alphabet, n) == UNION {[1..k -> alphabet] : k \in 0..n}

\* what the engine prints for some recordings
SpokenOutputs ==
  { <<"[", "M", "U", "S", "I", "C", "]", "\n">>,
    <<"M", "u", "s", "i", "c">>,
    <<"M", "Ú", "S", "I", "C", "A", "\n">>,
    <<"[", "S", "i", "l", "ê", "n", "c", "i", "o", "]">>,
    <<" ", "(", "M", "u", "s", "i", "c", ")", "\r", "\n">>,
    <<"[", "F", "u", "n", "d", "o", "]">>,
    <<"[", "M", "ú", "s", "i", "c", "a", " ", "d", "e", " ", "F", "u", "n", "d", "o", "]">>,
    <<"S", "o", "u", "s", "-", "T", "i", "t", "r", "e", "s">>,
    <<"S", "U", "B", "T", "I", "T", "L", "E">>,
    <<".", ".", ".">>,
    <<"[", "S", "I", "L", "E", "N", "C", "E", "]">>,
    <<"w", "a", "i", "t", ".", ".", ".", "\n">>,
    <<"a", " ", "m", "u", "s", "i", "c", "a", "l">>,
    <<"h", "e", "l", "l", "o", "\n">>,
    <<"h", "i", ".", ".", " ", "t", "h", "e", "r", "e">>,
    <<"s", "u", "b", " ", "t", "i", "t", "l", "e">>,
    <<"[", "m", "u", "s", "i", " ", "c", "]">>,
    <<"H", "e", "l", "l", "o", " ", "W", "o", "r", "l", "d", ".", "\n">>,
    <<"M", "U", "S", "I", "C", "A">> }

Outputs == SpokenOutputs \cup Strings(StdoutAlphabet, MaxStdout)

ExitCodes == {0, 1}

\* errno of a spawn that failed (ENOENT), passed to the close handler
SpawnErrno == 0 - 2

\* the machine: the binary or the audio file is missing, the process cannot
\* be started, or it runs, prints and exits
HostCases ==
  {Host(FALSE, TRUE, FALSE, <<>>, 0), Host(TRUE, FALSE, FALSE, <<>>, 0),
   Host(TRUE, TRUE, TRUE, <<>>, SpawnErrno)}
  \cup {Host(TRUE, TRUE, FALSE, o, c) : o \in Outputs, c \in ExitCodes}

gateRest == <<stopResult, ipcAudio, rmsCalls, audioFile, engineRuns, gateReturn>>

\* handleRecordingComplete up to the await: the executor of the promise
\* that transcribe returns
Transcribe ==
  /\ proc = "none"
  /\ IF ~host.binExists \/ ~host.fileExists
       THEN /\ proc' = "unspawned"
            /\ resolveCalls' = Append(resolveCalls, NoText)
       ELSE /\ proc' = "running"
            /\ UNCHANGED resolveCalls
  /\ UNCHANGED <<host, stdout, resumed, clipboardWrites, flowReport,
                 typed, overlayHidden, gateRest>>

\* proc.stdout.on("data", ...)
OnStdoutData ==
  /\ proc = "running"
  /\ ~host.startFails
  /\ stdout # host.output
  /\ stdout' = host.output
  /\ UNCHANGED <<host, proc, resolveCalls, resumed, clipboardWrites,
                 flowReport, typed, overlayHidden, gateRest>>

\* proc.on("error", ...)
OnProcError ==
  /\ proc = "running"
  /\ host.startFails
  /\ proc' = "errored"
  /\ resolveCalls' = Append(resolveCalls, NoText)
  /\ UNCHANGED <<host, stdout, resumed, clipboardWrites, flowReport,
                 typed, overlayHidden, gateRest>>

\* proc.on("close", ...): after the output has been read, or after a failed
\* spawn has been reported
OnProcClose ==
  /\ \/ proc = "running" /\ ~host.startFails /\ stdout = host.output
     \/ proc = "errored"
  /\ proc' = "closed"
  /\ resolveCalls' = Append(resolveCalls, onClose(host.code, stdout))
  /\ UNCHANGED <<host, stdout, resumed, clipboardWrites, flowReport,
                 typed, overlayHidden, gateRest>>

\* handleRecordingComplete after the await: the promise took the value of
\* the first call of resolve
AfterTranscribe(platform, prior, error) ==
  /\ resolveCalls # <<>>
  /\ ~resumed
  /\ resumed' = TRUE
  /\ LET text == Head(resolveCalls)
     IN  /\ flowReport' = IF text.isNull THEN "error"
                          ELSE IF isNoise(text.text) THEN "noise"
                          ELSE "transcription"
         /\ IF Forwards(text)
              THEN /\ typed' = Append(typed, text.text)
                   /\ clipboardWrites' =
                        clipboardWrites \o typeText(text.text, platform, prior, error)
              ELSE UNCHANGED <<typed, clipboardWrites>>
  /\ overlayHidden' = TRUE
  /\ UNCHANGED <<host, proc, stdout, resolveCalls, gateRest>>

\* a recording has been written to the audio file (or not) on some machine
InitEngine ==
  /\ hookStarted = TRUE
  /\ pressedKeys = {}
  /\ recordingStartTime = 0
  /\ isLatched = FALSE
  /\ isPaused = FALSE
  /\ currentConfig = Config(HotkeyShiftSpace, "hybrid")
  /\ isRecording = FALSE
  /\ now = 0
  /\ physDown = {}
  /\ emitted = <<>>
  /\ RendererInit("running")
  /\ GateInit
  /\ FlowInit
  /\ host \in HostCases
  /\ proc = "none"
  /\ stdout = <<>>
  /\ resolveCalls = <<>>
  /\ resumed = FALSE
  /\ clipboardWrites = <<>>
  /\ flowReport = "none"
  /\ CodecInit
  /\ RestInit

NextEngine ==
  \/ Transcribe /\ UNCHANGED <<hookVars, rendererVars, flowVars, codecVars, restVars>>
  \/ OnStdoutData /\ UNCHANGED <<hookVars, rendererVars, flowVars, codecVars, restVars>>
  \/ OnProcError /\ UNCHANGED <<hookVars, rendererVars, flowVars, codecVars, restVars>>
  \/ OnProcClose /\ UNCHANGED <<hookVars, rendererVars, flowVars, codecVars, restVars>>
  \/ \E pf \in Platforms, prior \in PriorClipboards, err \in BOOLEAN :
       AfterTranscribe(pf, prior, err)
         /\ UNCHANGED <<hookVars, rendererVars, flowVars, codecVars, restVars>>

SpecEngine == InitEngine /\ [][NextEngine]_vars

----------------------------------------------------------------------------
(* audio.js: the end of stopAudioRecording, downsampleBuffer and encodeWAV *)

MaxSamples == 9

\* float samples are multiples of 1/4
FloatScale == 4

\* numerators of the samples: -1.5 .. 1.5
Amplitudes == (0 - 6)..6

Sample(k) == Frac(k, FloatScale)

\* a buffer that holds one value
Constant(c, n) == [i \in 1..n |-> Sample(c)]

\* a buffer whose values go up step by step and start again at the bottom
Ramp(first, n) == [i \in 1..n |-> Sample(((first + i) % 13) - 6)]

Buffers ==
  {Constant(c, n) : c \in Amplitudes, n \in 0..MaxSamples}
    \cup {Ramp(f, n) : f \in 0..12, n \in 0..MaxSamples}

Rates == {8000, 16000, 22050, 44100, 48000}

\* stopAudioRecording: downsampleBuffer(resultBuffer, sampleRate, target)
Downsample ==
  /\ codecStep = "input"
  /\ codecStep' = "downsampled"
  /\ downsampled' = downsampleBuffer(pcmInput, nativeRate, targetRate)
  /\ UNCHANGED <<pcmInput, nativeRate, targetRate, wavBytes>>

\* stopAudioRecording: encodeWAV(downsampledBuffer, targetSampleRate)
Encode ==
  /\ codecStep = "downsampled"
  /\ codecStep' = "encoded"
  /\ wavBytes' = encodeWAV(toInt16Samples(downsampled), targetRate)
  /\ UNCHANGED <<pcmInput, nativeRate, targetRate, downsampled>>

\* a capture has been flattened, at some rate of the device, for some target
InitCodec ==
  /\ hookStarted = TRUE
  /\ pressedKeys = {}
  /\ recordingStartTime = 0
  /\ isLatched = FALSE
  /\ isPaused = FALSE
  /\ currentConfig = Config(HotkeyShiftSpace, "hybrid")
  /\ isRecording = FALSE
  /\ now = 0
  /\ physDown = {}
  /\ emitted = <<>>
  /\ RendererInit("running")
  /\ GateInit
  /\ FlowInit
  /\ EngineInit
  /\ RestInit
  /\ pcmInput \in Buffers
  /\ nativeRate \in Rates
  /\ targetRate \in Rates
  /\ downsampled = <<>>
  /\ wavBytes = <<>>
  /\ codecStep = "input"

NextCodec ==
  \/ Downsample /\ UNCHANGED <<hookVars, rendererVars, gateVars, flowVars, engineVars, restVars>>
  \/ Encode /\ UNCHANGED <<hookVars, rendererVars, gateVars, flowVars, engineVars, restVars>>

SpecCodec == InitCodec /\ [][NextCodec]_vars

----------------------------------------------------------------------------
(* Sessions that overlap: the overlay window of ui.js, the recording file   *)
(* and the engine processes, with the transcribe-audio handler split at its *)
(* await.  The renderer is reduced to its stop handler.                     *)

\* ui.js: showOverlay() -> createOverlayWindow(x, y): a new BrowserWindow is
\* created and overlayWindow refers to it
showOverlay(id) ==
  /\ windows' = windows \cup {id}
  /\ overlayWindow' = id
  /\ UNCHANGED closing

\* ui.js: hideOverlay(): the window overlayWindow refers to is closed
hideOverlay ==
  IF overlayWindow # 0
    THEN /\ windows' = windows \ {overlayWindow}
         /\ closing' = closing \cup {overlayWindow}
         /\ overlayWindow' = 0
    ELSE UNCHANGED <<overlayWindow, windows, closing>>

\* what stopAudioRecording resolves to: null, a capture that is too short,
\* a silent one, or a long and loud one
SessionCaptures ==
  {Null, Captured(Alternating(1, 2000, 2000)), Captured(Alternating(479, 0, 0)),
   Captured(Alternating(479, 2000, 2000))}

\* the verdict of the gate of transcribe-audio on what the renderer sends
\* for each capture: new ArrayBuffer(0) for null, else the WAV
GateVerdict ==
  [c \in SessionCaptures |->
     SilenceGate(IF c.isNull THEN <<>> ELSE encodeWAV(c.samples, 16000)).verdict]

SessionKeys == {66}

\* the rest of a run of the hook callback: startRecording opens a session and
\* shows the overlay, stopRecording sends stop-recording to the renderer
HookSession ==
  /\ sessionId' = IF emitted' = Start THEN sessionId + 1 ELSE sessionId
  /\ sessionId' <= MaxSessions
  /\ stopInbox' = IF emitted' = Stop THEN Append(stopInbox, sessionId)
                  ELSE stopInbox
  /\ IF emitted' = Start THEN showOverlay(sessionId')
     ELSE UNCHANGED <<overlayWindow, windows, closing>>
  /\ UNCHANGED <<variant, ipcSession, engineLog, injectLog, requests,
                 fileSession, engines, gateVars>>

\* renderer: onStopRecording, which always calls sendAudioForTranscription
StopHandled(capture) ==
  /\ stopInbox # <<>>
  /\ stopInbox' = Tail(stopInbox)
  /\ requests' = Append(requests, [session |-> Head(stopInbox),
                                   capture |-> capture])
  /\ UNCHANGED <<variant, sessionId, ipcSession, engineLog, injectLog,
                 overlayWindow, windows, closing, fileSession, engines,
                 gateVars>>

\* ipcMain.handle("transcribe-audio", ...) up to its await: the gate, the
\* write of the recording file, and transcribe() spawning the engine.  When
\* writeFileSync throws, the catch block returns false
TranscribeAudioBegin(writeFails) ==
  /\ requests # <<>>
  /\ requests' = Tail(requests)
  /\ LET request == Head(requests)
     IN  IF GateVerdict[request.capture] # "pass"
           THEN /\ hideOverlay
                /\ UNCHANGED <<fileSession, engines, engineLog>>
         ELSE IF writeFails
           THEN UNCHANGED <<fileSession, engines, engineLog, overlayWindow,
                            windows, closing>>
         ELSE /\ fileSession' = request.session
              /\ engines' = engines \cup {request.session}
              /\ engineLog' = Append(engineLog, request.session)
              /\ UNCHANGED <<overlayWindow, windows, closing>>
  /\ UNCHANGED <<variant, sessionId, stopInbox, ipcSession, injectLog,
                 gateVars>>

\* what the engine gives transcribe(): a text, a noise marker, or nothing
\* (an empty transcript or a failure of the process)
SessionOutcomes == {"speech", "noise", "empty"}

\* the engine process of session s closes: handleRecordingComplete goes on
\* after `await transcribe()` and ends with hideOverlay()
EngineClosed(s, outcome) ==
  /\ s \in engines
  /\ engines' = engines \ {s}
  /\ injectLog' = IF outcome = "speech" THEN Append(injectLog, s)
                  ELSE injectLog
  /\ hideOverlay
  /\ UNCHANGED <<variant, sessionId, stopInbox, ipcSession, engineLog,
                 requests, fileSession, gateVars>>

\* createOverlayWindow: overlayWindow.on("closed", () => { overlayWindow = null; })
\* for a window that was closed
OverlayClosed(w) ==
  /\ w \in closing
  /\ closing' = closing \ {w}
  /\ overlayWindow' = 0
  /\ UNCHANGED <<windows, requests, fileSession, engines, flowVars, gateVars>>

\* the modular application is running, in one of the trigger modes, with F8
InitSession ==
  /\ hookStarted = TRUE
  /\ pressedKeys = {}
  /\ recordingStartTime = 0
  /\ isLatched = FALSE
  /\ isPaused = FALSE
  /\ currentConfig \in {Config(HotkeyF8, m) : m \in TriggerModes}
  /\ isRecording = FALSE
  /\ now = 0
  /\ physDown = {}
  /\ emitted = <<>>
  /\ RendererInit("running")
  /\ GateInit
  /\ variant = "modular"
  /\ sessionId = 0
  /\ stopInbox = <<>>
  /\ ipcSession = <<>>
  /\ engineLog = <<>>
  /\ injectLog = <<>>
  /\ EngineInit
  /\ CodecInit
  /\ SessionInit
  /\ RecorderInit
  /\ ModelInit

SessionKeyDown ==
  \E k \in SessionKeys :
    KeyDown(k) /\ HookSession /\ UNCHANGED <<rendererVars, engineVars, codecVars,
                     recorderVars, modelVars>>

SessionKeyUp ==
  \E k \in SessionKeys :
    KeyUp(k) /\ HookSession /\ UNCHANGED <<rendererVars, engineVars, codecVars,
                     recorderVars, modelVars>>

SessionStopHandled ==
  \E c \in SessionCaptures :
    StopHandled(c) /\ UNCHANGED <<hookVars, rendererVars, engineVars, codecVars,
                     recorderVars, modelVars>>

SessionTranscribeAudio ==
  \E writeFails \in BOOLEAN :
    TranscribeAudioBegin(writeFails)
      /\ UNCHANGED <<hookVars, rendererVars, engineVars, codecVars,
                     recorderVars, modelVars>>

SessionEngineClosed ==
  \E s \in 1..MaxSessions, o \in SessionOutcomes :
    EngineClosed(s, o) /\ UNCHANGED <<hookVars, rendererVars, engineVars, codecVars,
                     recorderVars, modelVars>>

SessionOverlayClosed ==
  \E w \in 1..MaxSessions :
    OverlayClosed(w) /\ UNCHANGED <<hookVars, rendererVars, engineVars, codecVars,
                     recorderVars, modelVars>>

NextSession ==
  \/ SessionKeyDown
  \/ SessionKeyUp
  \/ SessionStopHandled
  \/ SessionTranscribeAudio
  \/ SessionEngineClosed
  \/ SessionOverlayClosed

SpecSession == InitSession /\ [][NextSession]_vars

\* the renderer handles every stop-recording, the main process every
\* transcribe-audio request, every engine process ends and every "closed"
\* event is delivered; the user is free to press no key
SpecSessionFair ==
  /\ SpecSession
  /\ WF_vars(SessionStopHandled)
  /\ WF_vars(SessionTranscribeAudio)
  /\ WF_vars(SessionEngineClosed)
  /\ WF_vars(SessionOverlayClosed)

----------------------------------------------------------------------------
(* The hotkey recorder of the settings window: updateHeldModifiers and      *)
(* buildAcceleratorString of the renderer's hotkey.js, and the recorder      *)
(* handlers of renderer.js                                                  *)

MaxDown == 2

\* String.prototype.startsWith
startsWith(s, prefix) ==
  Len(s) >= Len(prefix) /\ SubSeq(s, 1, Len(prefix)) = prefix

\* String.prototype.replace(pattern, "") for a string pattern: the first
\* occurrence is removed
replace(s, pattern) ==
  IF ~includes(s, pattern) THEN s
  ELSE LET i == CHOOSE i \in 0..(Len(s) - Len(pattern)) :
                  /\ SubSeq(s, i + 1, i + Len(pattern)) = pattern
                  /\ \A j \in 0..(i - 1) :
                        SubSeq(s, j + 1, j + Len(pattern)) # pattern
       IN  SubSeq(s, 1, i) \o SubSeq(s, i + Len(pattern) + 1, Len(s))

\* a key of the keyboard as a DOM keyboard event names it: event.key and
\* event.code
DomKey(key, code) == [key |-> key, code |-> code]

\* the keys of the keyboard in this model: three modifiers, a letter, a
\* digit, Space, a function key, an arrow key, Enter, Tab and Escape
DomKeys ==
  {DomKey(<<"S", "h", "i", "f", "t">>, <<"S", "h", "i", "f", "t", "L", "e", "f", "t">>),
   DomKey(<<"S", "h", "i", "f", "t">>, <<"S", "h", "i", "f", "t", "R", "i", "g", "h", "t">>),
   DomKey(<<"A", "l", "t">>, <<"A", "l", "t", "L", "e", "f", "t">>),
   DomKey(<<"a">>, <<"K", "e", "y", "A">>),
   DomKey(<<"1">>, <<"D", "i", "g", "i", "t", "1">>),
   DomKey(<<" ">>, <<"S", "p", "a", "c", "e">>),
   DomKey(<<"F", "8">>, <<"F", "8">>),
   DomKey(<<"A", "r", "r", "o", "w", "U", "p">>, <<"A", "r", "r", "o", "w", "U", "p">>),
   DomKey(<<"E", "n", "t", "e", "r">>, <<"E", "n", "t", "e", "r">>),
   DomKey(<<"T", "a", "b">>, <<"T", "a", "b">>),
   DomKey(<<"E", "s", "c", "a", "p", "e">>, <<"E", "s", "c", "a", "p", "e">>)}

\* event.code of the modifier keys and the name updateHeldModifiers keeps
ModifierNames ==
     (<<"M", "e", "t", "a", "L", "e", "f", "t">> :> <<"C", "o", "m", "m", "a", "n", "d">>)
  @@ (<<"M", "e", "t", "a", "R", "i", "g", "h", "t">> :> <<"R", "i", "g", "h", "t", "C", "o", "m", "m", "a", "n", "d">>)
  @@ (<<"C", "o", "n", "t", "r", "o", "l", "L", "e", "f", "t">> :> <<"C", "o", "n", "t", "r", "o", "l">>)
  @@ (<<"C", "o", "n", "t", "r", "o", "l", "R", "i", "g", "h", "t">> :> <<"R", "i", "g", "h", "t", "C", "o", "n", "t", "r", "o", "l">>)
  @@ (<<"A", "l", "t", "L", "e", "f", "t">> :> <<"O", "p", "t", "i", "o", "n">>)
  @@ (<<"A", "l", "t", "R", "i", "g", "h", "t">> :> <<"R", "i", "g", "h", "t", "O", "p", "t", "i", "o", "n">>)
  @@ (<<"S", "h", "i", "f", "t", "L", "e", "f", "t">> :> <<"S", "h", "i", "f", "t">>)
  @@ (<<"S", "h", "i", "f", "t", "R", "i", "g", "h", "t">> :> <<"R", "i", "g", "h", "t", "S", "h", "i", "f", "t">>)

\* the modifier flags of an event, from the keys that are down after it
Flag(down, left, right) == \E k \in down : k.code = left \/ k.code = right

KeyboardEvent(type, k, down) ==
  [type |-> type, key |-> k.key, code |-> k.code,
   metaKey  |-> Flag(down, <<"M", "e", "t", "a", "L", "e", "f", "t">>, <<"M", "e", "t", "a", "R", "i", "g", "h", "t">>),
   ctrlKey  |-> Flag(down, <<"C", "o", "n", "t", "r", "o", "l", "L", "e", "f", "t">>, <<"C", "o", "n", "t", "r", "o", "l", "R", "i", "g", "h", "t">>),
   altKey   |-> Flag(down, <<"A", "l", "t", "L", "e", "f", "t">>, <<"A", "l", "t", "R", "i", "g", "h", "t">>),
   shiftKey |-> Flag(down, <<"S", "h", "i", "f", "t", "L", "e", "f", "t">>, <<"S", "h", "i", "f", "t", "R", "i", "g", "h", "t">>)]

\* updateHeldModifiers(event): the new content of heldModifiers
updateHeldModifiers(held, event) ==
  IF event.type = "keydown"
    THEN IF event.code \in DOMAIN ModifierNames
           THEN held \cup {ModifierNames[event.code]} ELSE held
    ELSE LET released == IF event.code \in DOMAIN ModifierNames
                           THEN held \ {ModifierNames[event.code]} ELSE held
             meta  == IF ~event.metaKey THEN {<<"C", "o", "m", "m", "a", "n", "d">>, <<"R", "i", "g", "h", "t", "C", "o", "m", "m", "a", "n", "d">>} ELSE {}
             ctrl  == IF ~event.ctrlKey THEN {<<"C", "o", "n", "t", "r", "o", "l">>, <<"R", "i", "g", "h", "t", "C", "o", "n", "t", "r", "o", "l">>} ELSE {}
             alt   == IF ~event.altKey THEN {<<"O", "p", "t", "i", "o", "n">>, <<"R", "i", "g", "h", "t", "O", "p", "t", "i", "o", "n">>} ELSE {}
             shift == IF ~event.shiftKey THEN {<<"S", "h", "i", "f", "t">>, <<"R", "i", "g", "h", "t", "S", "h", "i", "f", "t">>} ELSE {}
         IN  released \ (meta \cup ctrl \cup alt \cup shift)

\* buildAcceleratorString: the names of the held modifiers, in this order
HeldOrder ==
  <<<<"C", "o", "m", "m", "a", "n", "d">>,
    <<"R", "i", "g", "h", "t", "C", "o", "m", "m", "a", "n", "d">>,
    <<"C", "o", "n", "t", "r", "o", "l">>,
    <<"R", "i", "g", "h", "t", "C", "o", "n", "t", "r", "o", "l">>,
    <<"O", "p", "t", "i", "o", "n">>,
    <<"R", "i", "g", "h", "t", "O", "p", "t", "i", "o", "n">>,
    <<"S", "h", "i", "f", "t">>,
    <<"R", "i", "g", "h", "t", "S", "h", "i", "f", "t">>>>

RECURSIVE SelectHeld(_, _)
SelectHeld(names, held) ==
  IF names = <<>> THEN <<>>
  ELSE IF Head(names) \in held THEN <<Head(names)>> \o SelectHeld(Tail(names), held)
  ELSE SelectHeld(Tail(names), held)

\* buildAcceleratorString: with no modifier tracked, the flags of the event
FlagParts(event) ==
  (IF event.metaKey THEN <<<<"C", "o", "m", "m", "a", "n", "d", "O", "r", "C", "o", "n", "t", "r", "o", "l">>>> ELSE <<>>)
    \o (IF event.ctrlKey THEN <<<<"C", "o", "n", "t", "r", "o", "l">>>> ELSE <<>>)
    \o (IF event.altKey THEN <<<<"A", "l", "t">>>> ELSE <<>>)
    \o (IF event.shiftKey THEN <<<<"S", "h", "i", "f", "t">>>> ELSE <<>>)

\* buildAcceleratorString: the name of the key that is not a modifier
keyName(event) ==
  IF startsWith(event.code, <<"K", "e", "y">>) THEN replace(event.code, <<"K", "e", "y">>)
  ELSE IF startsWith(event.code, <<"D", "i", "g", "i", "t">>) THEN replace(event.code, <<"D", "i", "g", "i", "t">>)
  ELSE IF event.code = <<"S", "p", "a", "c", "e">> \/ event.key = <<" ">> THEN <<"S", "p", "a", "c", "e">>
  ELSE IF startsWith(event.code, <<"F">>) /\ Len(event.code) <= 3 THEN event.code
  ELSE IF event.key \in {<<"A", "r", "r", "o", "w", "U", "p">>, <<"A", "r", "r", "o", "w", "D", "o", "w", "n">>,
                         <<"A", "r", "r", "o", "w", "L", "e", "f", "t">>, <<"A", "r", "r", "o", "w", "R", "i", "g", "h", "t">>}
    THEN event.key
  ELSE toUpperCase(event.key)

NoAccelerator == [isNull |-> TRUE, text |-> <<>>]

Accelerator(t) == [isNull |-> FALSE, text |-> t]

\* buildAcceleratorString(event), with heldModifiers as it is after
\* updateHeldModifiers
buildAcceleratorString(event, held) ==
  LET tracked == SelectHeld(HeldOrder, held)
      parts == IF Len(tracked) = 0 THEN FlagParts(event) ELSE tracked
  IN  IF event.key \in {<<"M", "e", "t", "a">>, <<"C", "o", "n", "t", "r", "o", "l">>, <<"S", "h", "i", "f", "t">>,
                        <<"A", "l", "t">>, <<"C", "t", "r", "l">>, <<"C", "o", "m", "m", "a", "n", "d">>}
        THEN IF Len(parts) > 0 THEN Accelerator(join(parts, <<"+">>))
             ELSE NoAccelerator
        ELSE Accelerator(join(Append(parts, keyName(event)), <<"+">>))

\* renderer.js: startRecordingHotkey(), with the set-recording-hotkey
\* handler of main.js pausing the hook
StartRecordingHotkey ==
  /\ ~isRecordingHotkey
  /\ isRecordingHotkey' = TRUE
  /\ pendingHotkey' = NoAccelerator
  /\ heldModifiers' = {}
  /\ isPaused' = TRUE
  /\ UNCHANGED <<domDown, currentConfig>>

\* renderer.js: the clear button: the hotkey "" is saved and the recorder opened
ClearHotkey ==
  /\ ~isRecordingHotkey
  /\ currentConfig' = [currentConfig EXCEPT !.hotkey = <<>>]
  /\ isRecordingHotkey' = TRUE
  /\ pendingHotkey' = NoAccelerator
  /\ heldModifiers' = {}
  /\ isPaused' = TRUE
  /\ UNCHANGED domDown

\* renderer.js: document.addEventListener("keydown", ...)
RecorderKeyDown(k) ==
  /\ k \notin domDown
  /\ Cardinality(domDown) < MaxDown
  /\ domDown' = domDown \cup {k}
  /\ IF ~isRecordingHotkey
       THEN UNCHANGED <<isRecordingHotkey, heldModifiers, pendingHotkey, isPaused>>
       ELSE LET event == KeyboardEvent("keydown", k, domDown')
                held == updateHeldModifiers(heldModifiers, event)
                accelerator == buildAcceleratorString(event, held)
            IN  IF event.key = <<"E", "s", "c", "a", "p", "e">>
                  THEN /\ isRecordingHotkey' = FALSE
                       /\ isPaused' = FALSE
                       /\ heldModifiers' = {}
                       /\ UNCHANGED pendingHotkey
                  ELSE /\ heldModifiers' = held
                       /\ pendingHotkey' =
                            IF ~accelerator.isNull /\ accelerator.text # <<>>
                              THEN accelerator ELSE pendingHotkey
                       /\ UNCHANGED <<isRecordingHotkey, isPaused>>
  /\ UNCHANGED currentConfig

\* renderer.js: document.addEventListener("keyup", ...)
RecorderKeyUp(k) ==
  /\ k \in domDown
  /\ domDown' = domDown \ {k}
  /\ heldModifiers' =
       IF isRecordingHotkey
         THEN updateHeldModifiers(heldModifiers, KeyboardEvent("keyup", k, domDown'))
         ELSE heldModifiers
  /\ UNCHANGED <<isRecordingHotkey, pendingHotkey, isPaused, currentConfig>>

\* renderer.js: finishRecording(true), from the confirm button or a click:
\* stopRecordingHotkey(), and the set-hotkey handler of main.js saves the
\* recorded accelerator
FinishRecording ==
  /\ isRecordingHotkey
  /\ isRecordingHotkey' = FALSE
  /\ isPaused' = FALSE
  /\ heldModifiers' = {}
  /\ currentConfig' =
       IF ~pendingHotkey.isNull /\ pendingHotkey.text # <<>>
         THEN [currentConfig EXCEPT !.hotkey = pendingHotkey.text]
         ELSE currentConfig
  /\ pendingHotkey' = NoAccelerator
  /\ UNCHANGED domDown

recorderRest == <<hookStarted, pressedKeys, recordingStartTime, isLatched,
                  isRecording, now, physDown, emitted>>

\* the application is running with the Shift+Space chord; the settings
\* window is open
InitRecorder ==
  /\ hookStarted = TRUE
  /\ pressedKeys = {}
  /\ recordingStartTime = 0
  /\ isLatched = FALSE
  /\ isPaused = FALSE
  /\ currentConfig = Config(HotkeyShiftSpace, "hybrid")
  /\ isRecording = FALSE
  /\ now = 0
  /\ physDown = {}
  /\ emitted = <<>>
  /\ RendererInit("running")
  /\ GateInit
  /\ FlowInit
  /\ EngineInit
  /\ CodecInit
  /\ SessionInit
  /\ RecorderInit
  /\ ModelInit

recorderOthers == <<recorderRest, rendererVars, gateVars, flowVars, engineVars,
                    codecVars, sessionVars, modelVars>>

NextRecorder ==
  \/ StartRecordingHotkey /\ UNCHANGED recorderOthers
  \/ ClearHotkey /\ UNCHANGED recorderOthers
  \/ \E k \in DomKeys : RecorderKeyDown(k) /\ UNCHANGED recorderOthers
  \/ \E k \in DomKeys : RecorderKeyUp(k) /\ UNCHANGED recorderOthers
  \/ FinishRecording /\ UNCHANGED recorderOthers

SpecRecorder == InitRecorder /\ [][NextRecorder]_vars

----------------------------------------------------------------------------
(* models.js and the set-model handler of main.js: choosing and downloading *)
(* a model                                                                  *)

\* getModels: exists is fs.existsSync(filePath)
getModels(f) == [m \in Models |-> [exists |-> f[m] # "absent"]]

\* ipcMain.handle("set-model", ...) up to its await: a model that exists
\* becomes CONFIG.model; for one that does not, downloadModel() sends the
\* request and the handler waits.  One request per model is followed at a time
SetModel(modelName) ==
  IF getModels(files)[modelName].exists
    THEN /\ configModel' = modelName
         /\ UNCHANGED <<files, downloading, transfers, waiting>>
    ELSE /\ transfers[modelName] = "none"
         /\ transfers' = [transfers EXCEPT ![modelName] = "requested"]
         /\ downloading' = downloading \cup {modelName}
         /\ waiting' = waiting \cup {modelName}
         /\ UNCHANGED <<files, configModel>>

\* downloadModel: the response arrives with status 200 and
\* fs.createWriteStream(destPath) creates the file
ResponseOk(modelName) ==
  /\ transfers[modelName] = "requested"
  /\ transfers' = [transfers EXCEPT ![modelName] = "receiving"]
  /\ files' = [files EXCEPT ![modelName] = "partial"]
  /\ UNCHANGED <<downloading, waiting, configModel>>

\* downloadModel: the response arrives with another status: the file is
\* unlinked and the promise rejected, so that set-model throws
ResponseBad(modelName) ==
  /\ transfers[modelName] = "requested"
  /\ transfers' = [transfers EXCEPT ![modelName] = "none"]
  /\ files' = [files EXCEPT ![modelName] = "absent"]
  /\ waiting' = waiting \ {modelName}
  /\ UNCHANGED <<downloading, configModel>>

\* downloadModel: request.on("error"): the file is unlinked, the promise
\* rejected and the Map entry deleted
RequestError(modelName) ==
  /\ transfers[modelName] = "requested"
  /\ transfers' = [transfers EXCEPT ![modelName] = "none"]
  /\ files' = [files EXCEPT ![modelName] = "absent"]
  /\ waiting' = waiting \ {modelName}
  /\ downloading' = downloading \ {modelName}
  /\ UNCHANGED configModel

\* the connection is lost while the body is received: the error is emitted
\* on the response, which has no listener for it; the file stays as it is
\* and the promise is never settled
ResponseAborted(modelName) ==
  /\ transfers[modelName] = "receiving"
  /\ transfers' = [transfers EXCEPT ![modelName] = "none"]
  /\ UNCHANGED <<files, downloading, waiting, configModel>>

\* downloadModel: file.on("finish"): the promise resolves, the Map entry is
\* deleted, and the set-model handler that waited goes on with
\* CONFIG.model = modelName
DownloadFinished(modelName) ==
  /\ transfers[modelName] = "receiving"
  /\ transfers' = [transfers EXCEPT ![modelName] = "none"]
  /\ files' = [files EXCEPT ![modelName] = "complete"]
  /\ downloading' = downloading \ {modelName}
  /\ waiting' = waiting \ {modelName}
  /\ configModel' = IF modelName \in waiting THEN modelName ELSE configModel

\* cancelDownload: req.destroy() and the Map entry deleted.  Before the
\* response the request emits "error" (the file is unlinked, the promise
\* rejected); after it the error goes to the response, and nothing is cleaned
cancelDownload(modelName) ==
  /\ modelName \in downloading
  /\ downloading' = downloading \ {modelName}
  /\ transfers' = [transfers EXCEPT ![modelName] = "none"]
  /\ IF transfers[modelName] = "requested"
       THEN /\ files' = [files EXCEPT ![modelName] = "absent"]
            /\ waiting' = waiting \ {modelName}
       ELSE UNCHANGED <<files, waiting>>
  /\ UNCHANGED configModel

\* the application is running; the settings window shows the models
InitModels ==
  /\ hookStarted = TRUE
  /\ pressedKeys = {}
  /\ recordingStartTime = 0
  /\ isLatched = FALSE
  /\ isPaused = FALSE
  /\ currentConfig = Config(HotkeyShiftSpace, "hybrid")
  /\ isRecording = FALSE
  /\ now = 0
  /\ physDown = {}
  /\ emitted = <<>>
  /\ RendererInit("running")
  /\ GateInit
  /\ FlowInit
  /\ EngineInit
  /\ CodecInit
  /\ SessionInit
  /\ RecorderInit
  /\ ModelInit

modelOthers == <<hookVars, rendererVars, gateVars, flowVars, engineVars,
                 codecVars, sessionVars, recorderVars>>

NextModels ==
  \/ \E m \in Models : SetModel(m) /\ UNCHANGED modelOthers
  \/ \E m \in Models : ResponseOk(m) /\ UNCHANGED modelOthers
  \/ \E m \in Models : ResponseBad(m) /\ UNCHANGED modelOthers
  \/ \E m \in Models : RequestError(m) /\ UNCHANGED modelOthers
  \/ \E m \in Models : ResponseAborted(m) /\ UNCHANGED modelOthers
  \/ \E m \in Models : DownloadFinished(m) /\ UNCHANGED modelOthers
  \/ \E m \in Models : cancelDownload(m) /\ UNCHANGED modelOthers

SpecModels == InitModels /\ [][NextModels]_vars

----------------------------------------------------------------------------
(* Properties *)

\* C1: the commands alternate start, stop, start, ...: every handler run sends
\* at most one command; start-recording is sent only when no session is active
\* and makes one active; stop-recording is sent only when a session is active
\* and ends it; and the session flag changes in no other way.
C1_Alternation ==
  [][ /\ emitted' \in {<<>>, Start, Stop}
      /\ (emitted' = Start => ~isRecording /\ isRecording')
      /\ (emitted' = Stop => isRecording /\ ~isRecording')
      /\ (isRecording' # isRecording => emitted' # <<>>) ]_vars

\* C1 witness: a session has been started and stopped again, by a press
\* in toggle mode, some time after start-up.
C1_Witness ==
  /\ emitted = Stop
  /\ ~isRecording
  /\ Mode = "toggle"
  /\ currentConfig.hotkey = HotkeyF8
  /\ now > 0

\* C2: a key-down handled while the chord was already held before the event
\* sends no command (stated for hotkeys whose tokens all resolve).
C2_RepeatIsSilent ==
  [][ \A k \in Keys :
        (KeyDown(k) /\ ~isPaused /\ AllResolve(currentConfig) /\ ChordHeld)
          => emitted' = <<>> ]_vars

\* C3: in hybrid mode a chord release of an active, unlatched session latches
\* it without a command when less than 500 ms have passed since the start,
\* and stops it when 500 ms or more have passed.
C3_HybridRelease ==
  [][ \A k \in Keys :
        (Mode = "hybrid" /\ isRecording /\ ~isLatched /\ Releases(k))
          => IF now - recordingStartTime < 500
             THEN isRecording' /\ isLatched' /\ emitted' = <<>>
             ELSE ~isRecording' /\ emitted' = Stop ]_vars

\* C3 witness: a hybrid session was stopped by a release exactly 500 ms
\* after its start.
C3_Witness ==
  /\ Mode = "hybrid"
  /\ emitted = Stop
  /\ ~ChordHeld
  /\ now - recordingStartTime = 500
  /\ currentConfig.hotkey = HotkeyShiftSpace

\* C4: in toggle and hybrid mode, a key-down that satisfies the chord while
\* the session is latched sends exactly one stop-recording, ends the session
\* and clears the latch, and starts nothing.
C4_LatchedPressStops ==
  [][ \A k \in Keys :
        (isRecording /\ isLatched /\ Mode \in {"toggle", "hybrid"} /\ Presses(k))
          => emitted' = Stop /\ ~isRecording' /\ ~isLatched' ]_vars

\* C4 witness: in hybrid mode a key-down has just stopped a session (only a
\* latched session is stopped by a key-down in hybrid mode).
C4_Witness ==
  /\ Mode = "hybrid"
  /\ emitted = Stop
  /\ ChordHeld
  /\ ~isRecording
  /\ ~isLatched
  /\ currentConfig.hotkey = HotkeyShiftSpace

\* C5: in hold mode every chord release of an active session sends
\* stop-recording and ends the session, whatever the elapsed time.
C5_HoldReleaseStops ==
  [][ \A k \in Keys :
        (Mode = "hold" /\ isRecording /\ Releases(k))
          => emitted' = Stop /\ ~isRecording' ]_vars

\* C5 witness: a hold session was stopped by a release less than 500 ms
\* after its start.
C5_Witness ==
  /\ Mode = "hold"
  /\ emitted = Stop
  /\ ~ChordHeld
  /\ now - recordingStartTime = 499
  /\ currentConfig.hotkey = HotkeyF8

\* C6: in hold mode, while a session is active, a key event other than the
\* release of the chord sends no command and leaves the session active; the
\* release of the chord sends exactly one stop-recording.
C6_HoldNoIntermediate ==
  [][ \A k \in Keys :
        /\ (Mode = "hold" /\ isRecording /\ KeyDown(k))
             => emitted' = <<>> /\ isRecording'
        /\ (Mode = "hold" /\ isRecording /\ KeyUp(k) /\ ~Releases(k))
             => emitted' = <<>> /\ isRecording'
        /\ (Mode = "hold" /\ isRecording /\ Releases(k))
             => emitted' = Stop ]_vars

\* C6 witness: a hold session on F8 is active while an unrelated key has
\* been pressed and nothing was sent.
C6_Witness ==
  /\ Mode = "hold"
  /\ currentConfig.hotkey = HotkeyF8
  /\ isRecording
  /\ ~isPaused
  /\ pressedKeys = {66, 57}
  /\ emitted = <<>>

\* C7: in toggle mode no key-up sends stop-recording or ends the session; a
\* chord release of an active session sets the latch; and a session ends only
\* on a key-down that satisfies the chord.
C7_ToggleIgnoresRelease ==
  [][ /\ \A k \in Keys :
           /\ (Mode = "toggle" /\ KeyUp(k))
                => emitted' # Stop /\ isRecording' = isRecording
           /\ (Mode = "toggle" /\ isRecording /\ Releases(k))
                => isLatched' /\ isRecording'
      /\ (Mode = "toggle" /\ isRecording /\ ~isRecording')
           => \E k \in Keys : Presses(k) ]_vars

\* C7 witness: a toggle session is still active, and latched, after its chord
\* was released.
C7_Witness ==
  /\ Mode = "toggle"
  /\ isRecording
  /\ isLatched
  /\ ~ChordHeld
  /\ currentConfig.hotkey = HotkeyShiftSpace

\* C8: a hotkey with a token that maps to no key code is never satisfied, and
\* no key event starts a capture under it.
C8_UnresolvedNeverHeld ==
  (hookStarted /\ ~AllResolve(currentConfig))
    => ~ChordHeld /\ emitted # Start

\* C9: for a hotkey whose tokens all resolve, the chord is held if and only
\* if every token has at least one of its codes in the pressed-key set.
C9_HeldIffEveryToken ==
  (hookStarted /\ AllResolve(currentConfig))
    => (ChordHeld <=>
          \A i \in DOMAIN Tokens(currentConfig) :
             CodesOf(Tokens(currentConfig)[i]) \cap pressedKeys # {})

\* C9 witness: CommandOrControl+Shift+Space is held through right-hand
\* modifier keys, with a key outside the chord down as well.
C9_Witness ==
  /\ currentConfig.hotkey = HotkeyCmdShiftSpace
  /\ pressedKeys = {3613, 54, 57, 30}
  /\ ChordHeld

\* C10: key events update the pressed-key set also while detection is paused,
\* so that the set equals the keys physically down when the pause ends.
C10_PausedBookkeeping ==
  [][ /\ \A k \in Keys :
           /\ KeyDown(k) => k \in pressedKeys'
           /\ KeyUp(k) => k \notin pressedKeys'
      /\ (isPaused /\ ~isPaused') => pressedKeys' = physDown' ]_vars

\* C11: a change of the pause flag changes nothing else of the trigger state
\* and sends nothing, and a key event handled while the flag is set sends no
\* command and leaves isRecording, isLatched and recordingStartTime alone.
C11_PauseKeepsSession ==
  [][ /\ (isPaused' # isPaused)
           => /\ emitted' = <<>>
              /\ UNCHANGED <<isRecording, isLatched, recordingStartTime,
                             pressedKeys, currentConfig>>
      /\ \A k \in Keys :
           (isPaused /\ (KeyDown(k) \/ KeyUp(k)))
             => /\ emitted' = <<>>
                /\ UNCHANGED <<isRecording, isLatched, recordingStartTime>> ]_vars

\* C11 witness: detection is paused during a session, and the chord keys have
\* all been released since without ending it.
C11_Witness ==
  /\ isPaused
  /\ isRecording
  /\ Mode = "hold"
  /\ currentConfig.hotkey = HotkeyF8
  /\ physDown = {}
  /\ pressedKeys = {66}

\* C12: a set-trigger-mode request handled during a session does not change
\* how the session reacts to the next chord release or chord press.
C12_ModeFixedDuringCapture ==
  [][ (isRecording /\ Mode' # Mode)
        => /\ PressOutcome(isRecording, isLatched, Mode')
                = PressOutcome(isRecording, isLatched, Mode)
           /\ \A d \in {0, 499, 500, 501} :
                ReleaseOutcome(Mode', isLatched, d)
                  = ReleaseOutcome(Mode, isLatched, d) ]_vars

\* C13: when the microphone cannot be opened (warmUpMicrophone() settles with
\* false) for a start that found the capture flag false, no session is
\* created: the capture flag stays false, the accumulator stays as it was and
\* empty of new blocks, and the main process is not left recording.
C13_FailedStartCreatesNoSession ==
  [][ (WarmUpDone(FALSE) /\ ~audioIsRecording)
        => /\ ~audioIsRecording'
           /\ audioBuffers' = <<>>
           /\ ~isRecording' ]_vars

\* C14: the callback of a delivered block appends the whole block to the
\* accumulator if the capture flag is true when it runs and leaves the
\* accumulator alone otherwise; the stop handler clears the flag and flattens
\* the accumulator as it stood when the handler began, and a block delivered
\* after that (while the microphone cools down) does not change the
\* flattened buffer that is sent; the accumulator never holds a block whose
\* callback ran while the flag was false.
C14_AppendIffActive ==
  [][ /\ Range(Flatten(audioBuffers)) \subseteq Range(Flatten(activeBlocks))
      /\ DeliverBlock
            => /\ audioBuffers' = IF audioIsRecording
                                    THEN audioBuffers \o <<Block(nextBlock)>>
                                    ELSE audioBuffers
               /\ cooling' = cooling
      /\ \A c \in BOOLEAN :
            OnStopRecording(c)
              => /\ ~audioIsRecording'
                 /\ (audioBuffers # <<>> /\ audioContext = "running")
                      => (IF c THEN cooling'.active /\ cooling'.samples = Flatten(audioBuffers)
                               ELSE lastPayload' = Wav(Flatten(audioBuffers)))
      /\ CoolDownDone => lastPayload' = Wav(cooling.samples) ]_vars

\* a block was delivered and dropped before the capture began, and the next
\* one was captured and sent
C14_Witness ==
  /\ lastPayload = Wav(Block(2))
  /\ nextBlock = 3
  /\ ~audioIsRecording
  /\ audioBuffers = <<>>

\* the samples come in the order the device produced them, none twice
InArrivalOrder(samples) ==
  \A i, j \in 1..Len(samples) : i < j => samples[i] < samples[j]

\* C15 as stated: once a hybrid session (press, release inside the latch
\* window, second press) is over and its stop has been handled, the payload
\* sent for it holds every block the device delivered between the first and
\* the second press, once and in arrival order.
C15_AllBlocksSincePress ==
  (/\ channel = <<>> /\ ~isRecording /\ pendingWarmups = 0 /\ ~cooling.active
   /\ lastPayload # NoPayload)
    => /\ Range(Flatten(mainBlocks)) \subseteq Range(lastPayload.samples)
       /\ InArrivalOrder(lastPayload.samples)

\* a payload with audio is handed to sendAudioForTranscription in this step
PayloadSent ==
  \/ CoolDownDone
  \/ /\ \E c \in BOOLEAN : OnStopRecording(c)
     /\ audioBuffers # <<>> /\ audioContext = "running"
     /\ cooling' = cooling

\* startAudioRecording reaches its last statements in this step
CaptureBegins ==
  \/ OnStartRecording /\ audioContext # "null"
  \/ \E ok \in BOOLEAN : WarmUpDone(ok)

\* stopAudioRecording has encoded a WAV in this step
PayloadBuilt ==
  /\ \E c \in BOOLEAN : OnStopRecording(c)
  /\ audioBuffers # <<>> /\ audioContext = "running"

C17_StartWhileActiveIgnored ==
  [][ (CaptureBegins /\ audioIsRecording)
        => /\ audioIsRecording'
           /\ audioBuffers' = audioBuffers ]_vars

\* the bytes the renderer sends for the capture
Payload ==
  IF stopResult.isNull THEN <<>> ELSE encodeWAV(stopResult.samples, 16000)

RECURSIVE SquaresOf(_, _, _)
SquaresOf(samples, lo, hi) ==
  IF hi < lo THEN 0
  ELSE IF hi = lo THEN samples[lo] * samples[lo]
  ELSE LET mid == (lo + hi) \div 2
       IN  SquaresOf(samples, lo, mid) + SquaresOf(samples, mid + 1, hi)

\* the root mean square of the captured samples is below t (0 for no samples)
RmsBelow(t) ==
  LET n == Len(stopResult.samples)
  IN  n = 0 \/ SquaresOf(stopResult.samples, 1, n) < t * t * n

\* the root mean square of the captured samples is at least t
RmsAtLeast(t) ==
  LET n == Len(stopResult.samples)
  IN  n > 0 /\ SquaresOf(stopResult.samples, 1, n) >= t * t * n

Handled == gateReturn # "none"

NoFurther == audioFile = <<>> /\ engineRuns = 0 /\ typed = <<>>

\* C18: once the transcribe-audio handler has run for a capture that ended
\* with an empty accumulator, with a payload shorter than 1000 bytes or with
\* an RMS below 1500, the recording file has not been written, the engine
\* has not been invoked and no text has been typed.
C18_RejectedGoesNoFurther ==
  (Handled /\ (stopResult.isNull \/ Len(Payload) < 1000 \/ RmsBelow(1500)))
    => NoFurther /\ gateReturn = "false"

\* a capture with no blocks was sent as an empty array and turned down
C18_Witness ==
  /\ stopResult = Null
  /\ Handled /\ NoFurther /\ overlayHidden

\* C19: the handler turns a payload shorter than 1000 bytes down without
\* calling calculateRMS; for a payload of at least 1000 bytes it calls
\* calculateRMS once and turns the payload down when the RMS is below 1500.
C19_LengthBeforeRms ==
  Handled
    => IF Len(Payload) < 1000
         THEN rmsCalls = 0 /\ NoFurther /\ gateReturn = "false"
         ELSE /\ rmsCalls = 1
              /\ RmsBelow(1500) => (NoFurther /\ gateReturn = "false")

\* 478 samples of 1499 (1000 bytes): the RMS was computed and found too low
C19_Witness ==
  /\ stopResult = Captured(Alternating(478, 1499, 1499))
  /\ Len(Payload) = 1000
  /\ Handled /\ rmsCalls = 1 /\ NoFurther

AllZero == \A i \in 1..Len(stopResult.samples) : stopResult.samples[i] = 0

Accepted == audioFile = Payload /\ audioFile # <<>> /\ engineRuns = 1

\* C20 as stated: the handler turns down every payload whose samples are all
\* zero, whatever their number, and accepts every payload whose RMS is at
\* least 1501.
C20_ZeroRejectedLoudAccepted ==
  Handled
    => /\ AllZero => NoFurther
       /\ RmsAtLeast(1501) => Accepted

\* C20, amended: the handler turns down every payload whose samples are all
\* zero, whatever their number, and accepts every payload of at least 1000
\* bytes whose RMS is at least 1501.
C20_ZeroRejectedLongLoudAccepted ==
  Handled
    => /\ AllZero => NoFurther
       /\ (Len(Payload) >= 1000 /\ RmsAtLeast(1501)) => Accepted

\* 478 samples of 1501 (1000 bytes) went through the gate
C20_Witness ==
  /\ stopResult = Captured(Alternating(478, 1501, 1501))
  /\ Handled /\ Accepted

\* C21: in every variant of the main process a recording session leads to at
\* most one spawn of the engine and to at most one text injection: the stop
\* path of the hook and the transcribe-audio handler never both run the
\* transcription flow for one session.
C21_OneFlowPerSession ==
  \A s \in 1..MaxSessions :
    /\ Count(engineLog, s) <= 1
    /\ Count(injectLog, s) <= 1

\* the configured markers
Markers == Range(noisePatterns)

\* the lowercased text contains a marker as a substring
HasMarker(t) ==
  \E m \in Markers : \E i \in 1..Len(t), j \in 1..Len(t) :
    SubSeq(toLowerCase(t), i, j) = m

\* the step in which handleRecordingComplete goes on with the transcript
Continues == ~resumed /\ resumed'

\* the transcript handleRecordingComplete got from transcribe
Transcript == Head(resolveCalls)

\* C22: a transcript classified as noise, or an empty transcript, is never
\* forwarded to the text-injection side: typeText is not called and the
\* clipboard is not written.
C22_NoiseOrEmptyNotForwarded ==
  [][ (Continues /\ flowReport' \in {"noise", "error"})
        => typed' = typed /\ clipboardWrites' = clipboardWrites ]_vars

\* C22 witness: the engine printed "[MUSIC]"; the transcript was reported as
\* noise and nothing was typed or written to the clipboard.
C22_Witness ==
  /\ resumed
  /\ flowReport = "noise"
  /\ Transcript = Text(<<"[", "M", "U", "S", "I", "C", "]">>)
  /\ typed = <<>>
  /\ clipboardWrites = <<>>

\* C23: the noise filter flags a transcript if and only if its lowercased
\* text contains a configured marker as a substring; a transcript equal to a
\* marker in any letter case is flagged, one that contains no marker is not.
C23_FlaggedIffMarker ==
  [][ (Continues /\ ~Transcript.isNull)
        => /\ flowReport' = "noise" <=> HasMarker(Transcript.text)
           /\ toLowerCase(Transcript.text) \in Markers => flowReport' = "noise"
           /\ ~HasMarker(Transcript.text) => flowReport' = "transcription" ]_vars

\* C23 witness: "MÚSICA", a marker in another letter case, has been flagged.
C23_Witness ==
  /\ resumed
  /\ flowReport = "noise"
  /\ Transcript.text = <<"M", "Ú", "S", "I", "C", "A">>
  /\ Transcript.text \notin Markers

\* the engine cannot produce text: the binary is missing, the process fails
\* to start, or it exits with a non-zero code
CannotProduce == ~host.binExists \/ host.startFails \/ host.code # 0

\* C24: whenever the engine cannot produce text, transcribe resolves once the
\* failure is known, with no text, even if standard output is not empty (a
\* later call of resolve passes null as well), and nothing is typed.
C24_FailureResolvesNull ==
  CannotProduce =>
    /\ proc \in {"unspawned", "errored", "closed"} => resolveCalls # <<>>
    /\ \A i \in DOMAIN resolveCalls : resolveCalls[i].isNull
    /\ typed = <<>>
    /\ clipboardWrites = <<>>
    /\ resumed => flowReport = "error"

\* C24 witness: the engine printed a line and exited with code 1; the flow
\* ended with the error status.
C24_Witness ==
  /\ host.code = 1
  /\ parseStdout(stdout) = <<"a", " ", "a">>
  /\ proc = "closed"
  /\ resumed
  /\ resolveCalls = <<NoText>>
  /\ flowReport = "error"

\* the positions of the line breaks of s, with both ends
Cuts(s) == {0, Len(s) + 1} \cup {i \in DOMAIN s : s[i] = "\n"}

\* the lines of s, in order
LinesOf(s) ==
  [n \in 1..(Cardinality(Cuts(s)) - 1) |->
     LET a == CHOOSE c \in Cuts(s) : Cardinality({d \in Cuts(s) : d < c}) = n - 1
         b == CHOOSE c \in Cuts(s) : Cardinality({d \in Cuts(s) : d < c}) = n
     IN  SubSeq(s, a + 1, b - 1)]

\* a line without the white space at its ends
Stripped(l) ==
  LET ink == {i \in DOMAIN l : l[i] \notin WhiteSpace}
  IN  IF ink = {} THEN <<>>
      ELSE SubSeq(l, CHOOSE i \in ink : \A j \in ink : i <= j,
                     CHOOSE i \in ink : \A j \in ink : j <= i)

\* the words of a sequence of lines, one space between two lines
RECURSIVE Spaced(_)
Spaced(ls) ==
  IF ls = <<>> THEN <<>>
  ELSE IF Len(ls) = 1 THEN ls[1]
  ELSE Spaced(SubSeq(ls, 1, Len(ls) - 1)) \o <<" ">> \o ls[Len(ls)]

\* the non-empty trimmed lines of s, in order, joined by single spaces
JoinedLines(s) ==
  LET stripped == [n \in DOMAIN LinesOf(s) |-> Stripped(LinesOf(s)[n])]
      kept == {n \in DOMAIN stripped : stripped[n] # <<>>}
      nth(k) == CHOOSE n \in kept : Cardinality({m \in kept : m < n}) = k - 1
  IN  Spaced([k \in 1..Cardinality(kept) |-> stripped[nth(k)]])

\* C25: when the engine exits with code 0, the transcript is the non-empty
\* trimmed lines of its standard output, in their order, joined by single
\* spaces; lines that are empty after trimming contribute nothing.
C25_TranscriptIsJoinedLines ==
  (proc = "closed" /\ ~host.startFails /\ host.code = 0)
    => resolveCalls = <<OrNull(JoinedLines(host.output))>>

\* C25 witness: the engine printed "a", an empty line and "a", and exited
\* with code 0.
C25_Witness ==
  /\ proc = "closed"
  /\ host.code = 0
  /\ host.output = <<"a", "\n", "\n", "a">>
  /\ resolveCalls = <<Text(<<"a", " ", "a">>)>>

\* little-endian fields of a byte sequence, at an offset from 0
ReadU16(b, off) == b[off + 1] + 256 * b[off + 2]

ReadU32(b, off) == ReadU16(b, off) + 65536 * ReadU16(b, off + 2)

\* C26: for N samples at rate R, encodeWAV produces exactly 44 + 2N bytes
\* whose header parses back to RIFF chunk size 36 + 2N, format PCM (1),
\* 1 channel, sample rate R, byte rate 2R, block align 2, 16 bits per sample
\* and data size 2N.
C26_HeaderRoundTrip ==
  codecStep = "encoded" =>
    LET N == Len(downsampled)
        R == targetRate
    IN  /\ Len(wavBytes) = 44 + 2 * N
        /\ \A i \in DOMAIN wavBytes : wavBytes[i] \in 0..255
        /\ SubSeq(wavBytes, 1, 4) = <<82, 73, 70, 70>>
        /\ ReadU32(wavBytes, 4) = 36 + 2 * N
        /\ SubSeq(wavBytes, 9, 16) = <<87, 65, 86, 69, 102, 109, 116, 32>>
        /\ ReadU32(wavBytes, 16) = 16
        /\ ReadU16(wavBytes, 20) = 1
        /\ ReadU16(wavBytes, 22) = 1
        /\ ReadU32(wavBytes, 24) = R
        /\ ReadU32(wavBytes, 28) = 2 * R
        /\ ReadU16(wavBytes, 32) = 2
        /\ ReadU16(wavBytes, 34) = 16
        /\ SubSeq(wavBytes, 37, 40) = <<100, 97, 116, 97>>
        /\ ReadU32(wavBytes, 40) = 2 * N

\* C26 witness: nine samples have been encoded at 48000 Hz, into 62 bytes.
C26_Witness ==
  /\ codecStep = "encoded"
  /\ Len(downsampled) = 9
  /\ targetRate = 48000
  /\ Len(wavBytes) = 62

\* C27: every float sample is clamped to [-1, 1], negative values are scaled
\* by 0x8000 and the others by 0x7fff, so every PCM value lies in
\* [-32768, 32767]: samples at or below -1 encode as -32768, samples at or
\* above 1 as 32767, and no value wraps around.
C27_ClampedAndScaled ==
  codecStep = "encoded" =>
    \A i \in 1..Len(downsampled) :
      LET x == downsampled[i]
          v == SampleAt(wavBytes, i - 1)
      IN  /\ v \in (0 - 32768)..32767
          /\ x.num <= 0 - x.den => v = 0 - 32768
          /\ x.num >= x.den => v = 32767
          /\ (x.num < 0 /\ x.num > 0 - x.den)
               => v = 0 - (((0 - x.num) * 32768) \div x.den)
          /\ (x.num >= 0 /\ x.num < x.den) => v = (x.num * 32767) \div x.den

\* C27 witness: a buffer with a sample above 1 and a sample below -1 has
\* been encoded, the first as 32767 and the second as -32768.
C27_Witness ==
  /\ codecStep = "encoded"
  /\ \E i \in 1..Len(downsampled) :
       /\ downsampled[i].num > downsampled[i].den
       /\ SampleAt(wavBytes, i - 1) = 32767
  /\ \E i \in 1..Len(downsampled) :
       /\ downsampled[i].num < 0 - downsampled[i].den
       /\ SampleAt(wavBytes, i - 1) = 0 - 32768

\* the indices (from 0) of the input samples in [i * ratio, (i + 1) * ratio),
\* ratio = nativeRate / targetRate
RatioWindow(i) ==
  {j \in 0..(Len(pcmInput) - 1) :
     /\ i * nativeRate <= j * targetRate
     /\ j * targetRate < (i + 1) * nativeRate}

\* the mean of the input samples of a window
MeanOver(w) ==
  LET lo == CHOOSE j \in w : \A k \in w : j <= k
      hi == CHOOSE j \in w : \A k \in w : k <= j
      sum == Accum(pcmInput, lo, hi + 1)
  IN  Frac(sum.num, sum.den * Cardinality(w))

\* stopAudioRecording has taken the samples down from a higher native rate
Downsampled == codecStep # "input" /\ nativeRate > targetRate

\* C28: when downsampling from a native rate above the target rate, output
\* sample i is the average of exactly the input samples whose index lies in
\* [i * ratio, (i + 1) * ratio), for integer and non-integer ratios alike.
C28_WindowAverage ==
  Downsampled =>
    \A r \in 1..Len(downsampled) :
      RatioWindow(r - 1) # {} => downsampled[r] = MeanOver(RatioWindow(r - 1))

\* C29: downsampling a constant sequence of length L from R1 to a lower R2
\* gives a sequence of length round(L * R2 / R1) in which every value is the
\* constant; no output window is empty.
C29_ConstantStaysConstant ==
  \A c \in Amplitudes :
    (Downsampled /\ pcmInput = Constant(c, Len(pcmInput))) =>
      /\ 2 * Abs(Len(downsampled) * nativeRate - Len(pcmInput) * targetRate)
           <= nativeRate
      /\ \A r \in 1..Len(downsampled) :
           /\ downsampled[r] = Sample(c)
           /\ Round((r - 1) * nativeRate, targetRate) < Len(pcmInput)

\* C29 witness: nine samples of 0.75 at 44100 Hz have become three samples
\* of 0.75 at 16000 Hz.
C29_Witness ==
  /\ codecStep = "downsampled"
  /\ nativeRate = 44100
  /\ targetRate = 16000
  /\ pcmInput = Constant(3, 9)
  /\ downsampled = Constant(3, 3)

\* C30: if the native rate is equal to or below the target rate,
\* downsampleBuffer returns its input unchanged; it never produces more
\* samples than it was given.
C30_NeverUpsamples ==
  codecStep # "input" =>
    /\ nativeRate <= targetRate => downsampled = pcmInput
    /\ Len(downsampled) <= Len(pcmInput)

\* C30 witness: nine different samples at 8000 Hz, target 16000 Hz, have
\* been passed through.
C30_Witness ==
  /\ codecStep = "downsampled"
  /\ nativeRate = 8000
  /\ targetRate = 16000
  /\ pcmInput = Ramp(0, 9)
  /\ downsampled = pcmInput

\* the codes of the two Shift keys
ShiftCodes == {UiohookKey[<<"S", "h", "i", "f", "t">>],
               UiohookKey[<<"S", "h", "i", "f", "t", "R", "i", "g", "h", "t">>]}

\* C31: on every key-up event, whichever key was released, a modifier that
\* the operating system reports as no longer held is removed from the
\* tracked key set in both its left and right variants, so a missed modifier
\* key-up does not leave the modifier tracked after the next key-up.
C31_ReleasedModifiersForgotten ==
  [][ \A k \in Keys :
        (~isPaused /\ physDown \cap ShiftCodes \subseteq {k} /\ KeyUp(k))
          => pressedKeys' \cap ShiftCodes = {} ]_vars

\* every start-recording and stop-recording sent so far is fully handled:
\* nothing is in flight, no start handler waits for the microphone and no
\* stop handler waits for the microphone to close
AllHandled ==
  /\ channel = <<>>
  /\ pendingWarmups = 0
  /\ ~cooling.active

\* C32: once every start-recording and stop-recording message sent so far
\* has been fully handled, the renderer's isRecording equals the main
\* process's isRecording, also when a stop-recording arrives while the
\* handler of the preceding start-recording still waits for the microphone.
C32_RendererFollowsMain ==
  AllHandled => audioIsRecording = isRecording

\* C33: at most one capture graph feeds the accumulator at any time, also
\* when warm-up requests overlap, so each delivered block is accumulated once.
C33_OneCaptureGraph ==
  liveGraphs <= 1

\* C34: in hold mode, with a chord whose tokens all resolve, a session never
\* outlives the physical hold of the chord: once the last key has been
\* released and its key-up has been delivered to the hook, the session has
\* been stopped, also when chord detection was paused and resumed while the
\* chord was held or released.
C34_HoldEndsWithRelease ==
  [][ \A k \in Keys :
        (Mode = "hold" /\ AllResolve(currentConfig) /\ physDown = {k} /\ KeyUp(k))
          => ~isRecording' ]_vars

\* C38: isLatched implies that a session is active; after any stop of a
\* capture, under any sequence of key events and trigger-mode changes,
\* isLatched is false.
C38_LatchedImpliesActive ==
  isLatched => isRecording

\* C35: a transcribe-audio request never rewrites the recording file while
\* an engine process started for an earlier session is still running.
C35_NoRewriteWhileEngineRuns ==
  [][ fileSession' # fileSession => engines = {} ]_vars

\* session s has been started and stopped
Stopped(s) ==
  /\ s <= sessionId
  /\ s < sessionId \/ ~isRecording

\* C36: after every stop of a capture the overlay window of the session is
\* eventually closed, on every outcome of the session.
C36_OverlayEventuallyClosed ==
  \A s \in 1..MaxSessions : Stopped(s) ~> (s \notin windows)

\* C37: at most one overlay window is open at any time, also when a new
\* session starts before the transcription of the previous one has finished.
C37_OneOverlayWindow ==
  Cardinality(windows) <= 1

\* C39: every accelerator string the hotkey recorder produces is understood
\* by the matcher: each of its tokens resolves to a key code or to an array
\* of key codes in isHotkeyPressed.
C39_RecordedTokensResolve ==
  ~pendingHotkey.isNull =>
    \A i \in DOMAIN split(pendingHotkey.text, "+") :
      Truthy(Resolve(split(pendingHotkey.text, "+")[i]))

\* C40: the configured model is one whose file has been completely
\* downloaded: a model whose download is in progress, has failed or was
\* cancelled does not become CONFIG.model.
C40_ActiveModelComplete ==
  files[configModel] = "complete"

====
